---------------------------- MODULE Spec2Model ----------------------------
(***************************************************************************)
(* Data clustering visualizer (src/data_clustering_visualizer.py): the     *)
(* session state of DataClusteringVisualizerInterface and its event        *)
(* handlers, as a state machine.                                           *)
(*                                                                         *)
(* Texts are sequences of one-character strings, so that str.isnumeric,    *)
(* str.replace, numpy's fixed-width string cells and float() are computed  *)
(* as the code computes them.  The element "sup2" stands for the one       *)
(* character U+00B2 (SUPERSCRIPT TWO).  <<"None">> stands for Python's     *)
(* None where a text is expected.                                          *)
(***************************************************************************)
EXTENDS Integers, Sequences, FiniteSets, TLC

(***************************************************************************)
(* Bounds of the model.                                                    *)
(***************************************************************************)
\* numbers are kept with this many fractional digits
FracDigits == 2
\* display_data_clustering runs at most this many times in a behaviour
MaxDisplays == 2
\* the cluster counts typed are 0..MaxCount
MaxCount == 4
\* a session has at most this many events of the user
MaxEvents == 8

(***************************************************************************)
(* Texts                                                                   *)
(***************************************************************************)
None == <<"None">>

Digits == {"0", "1", "2", "3", "4", "5", "6", "7", "8", "9"}

\* characters c with c.isnumeric(): the decimal digits and, in this model's
\* alphabet, U+00B2
NumericChars == Digits \cup {"sup2"}

Min(a, b) == IF a <= b THEN a ELSE b

RECURSIVE Pow10(_)
Pow10(n) == IF n = 0 THEN 1 ELSE 10 * Pow10(n - 1)

Scale == Pow10(FracDigits)

\* bool(text): None and "" are falsy
Truthy(t) == t # None /\ t # <<>>

\* str.isnumeric
IsNumeric(t) == Len(t) > 0 /\ \A i \in 1..Len(t) : t[i] \in NumericChars

\* text.replace(c, '', 1)
ReplaceFirst(t, c) ==
    LET at == {i \in 1..Len(t) : t[i] = c}
    IN  IF at = {} THEN t
        ELSE LET i == CHOOSE j \in at : \A k \in at : j <= k
             IN  SubSeq(t, 1, i - 1) \o SubSeq(t, i + 1, Len(t))

\* what a numpy '<Uw' cell keeps of an assigned text
Truncate(t, w) == SubSeq(t, 1, Min(Len(t), w))

DigitVal(c) ==
    CASE c = "0" -> 0 [] c = "1" -> 1 [] c = "2" -> 2 [] c = "3" -> 3
      [] c = "4" -> 4 [] c = "5" -> 5 [] c = "6" -> 6 [] c = "7" -> 7
      [] c = "8" -> 8 [] c = "9" -> 9

DigitChar(d) ==
    CASE d = 0 -> "0" [] d = 1 -> "1" [] d = 2 -> "2" [] d = 3 -> "3"
      [] d = 4 -> "4" [] d = 5 -> "5" [] d = 6 -> "6" [] d = 7 -> "7"
      [] d = 8 -> "8" [] d = 9 -> "9"

RECURSIVE IntOf(_)
IntOf(t) == IF t = <<>> THEN 0
            ELSE 10 * IntOf(SubSeq(t, 1, Len(t) - 1)) + DigitVal(t[Len(t)])

\* str(n) for n >= 0
RECURSIVE StrOfNat(_)
StrOfNat(n) == IF n < 10 THEN <<DigitChar(n)>>
               ELSE StrOfNat(n \div 10) \o <<DigitChar(n % 10)>>

RECURSIVE PadRight(_, _)
PadRight(t, n) == IF Len(t) >= n THEN SubSeq(t, 1, n) ELSE PadRight(t \o <<"0">>, n)

(***************************************************************************)
(* float(text), for texts over the alphabet of this model: an optional     *)
(* sign, decimal digits with at most one point and at least one digit.     *)
(* The value is kept as an integer number of 10^-FracDigits.  Exponents,   *)
(* "inf", "nan", blanks and underscores are outside the alphabet, so a     *)
(* text with any other character does not convert.                         *)
(***************************************************************************)
ParseFloat(t) ==
    LET signed == Len(t) > 0 /\ t[1] \in {"-", "+"}
        body   == IF signed THEN Tail(t) ELSE t
        dots   == {i \in 1..Len(body) : body[i] = "."}
        wellformed == /\ Cardinality(dots) <= 1
                      /\ \A i \in (1..Len(body)) \ dots : body[i] \in Digits
                      /\ Len(body) - Cardinality(dots) >= 1
        dot    == IF dots = {} THEN Len(body) + 1 ELSE CHOOSE i \in dots : TRUE
        ip     == SubSeq(body, 1, dot - 1)
        fp     == SubSeq(body, dot + 1, Len(body))
        mag    == IntOf(ip) * Scale + IntOf(PadRight(fp, FracDigits))
    IN  IF ~wellformed THEN [ok |-> FALSE, v |-> 0]
        ELSE [ok |-> TRUE, v |-> IF signed /\ t[1] = "-" THEN 0 - mag ELSE mag]

(***************************************************************************)
(* Cells and arrays.  A cell of a numpy array is a text (dtype '<Uw'), a   *)
(* number or nan (dtype float).                                            *)
(***************************************************************************)
StrCell(t) == [k |-> "str", s |-> t, v |-> 0]
NumCell(n) == [k |-> "num", s |-> <<>>, v |-> n]
NaNCell    == [k |-> "nan", s |-> <<>>, v |-> 0]

\* a 2-D array: cells[r][c], rows and columns counted from 1
Array(dtype, width, nrows, ncols, cells) ==
    [dtype |-> dtype, width |-> width, nrows |-> nrows, ncols |-> ncols, cells |-> cells]

NoArray == [dtype |-> "none", width |-> 0, nrows |-> 0, ncols |-> 0, cells |-> <<>>]

\* numpy's conversion of one text cell by astype(float) / assignment into a
\* float array
CellToFloat(c) ==
    IF c.k # "str" THEN c
    ELSE LET p == ParseFloat(c.s) IN IF p.ok THEN NumCell(p.v) ELSE NaNCell

CellConverts(c) == c.k # "str" \/ ParseFloat(c.s).ok

\* array.astype(float): defined when every cell converts
AstypeFloatOk(a) ==
    \A r \in 1..a.nrows : \A c \in 1..a.ncols : CellConverts(a.cells[r][c])

AstypeFloat(a) ==
    Array("float", 0, a.nrows, a.ncols,
          [r \in 1..a.nrows |-> [c \in 1..a.ncols |-> CellToFloat(a.cells[r][c])]])


(***************************************************************************)
(* Values written into an array by item assignment.                        *)
(***************************************************************************)
PyNone    == [t |-> "none", s |-> <<>>]
PyZero    == [t |-> "int", s |-> <<"0">>]
PyText(x) == [t |-> "text", s |-> x]

\* text or None as a Python value
PyOf(x) == IF x = None THEN PyNone ELSE PyText(x)

\* whether array[r][c] = value raises for a value of the given kind: a float
\* array converts a text with float() and takes None as nan; a '<Uw' array
\* takes str(value) cut to w characters
AssignOk(a, val) ==
    a.dtype = "str" \/ val.t # "text" \/ ParseFloat(val.s).ok

AssignedCell(a, val) ==
    IF a.dtype = "str"
    THEN StrCell(Truncate(IF val.t = "none" THEN <<"N", "o", "n", "e">> ELSE val.s, a.width))
    ELSE IF val.t = "none" THEN NaNCell
         ELSE CellToFloat(StrCell(val.s))

\* array[r][c] = val, r and c counted from 0 as in the code
SetCell(a, r, c, val) ==
    [a EXCEPT !.cells[r + 1][c + 1] = AssignedCell(a, val)]

RECURSIVE SetCells(_, _, _, _)
SetCells(a, rows, c, val) ==
    IF rows = <<>> THEN a
    ELSE SetCells(SetCell(a, Head(rows), c, val), Tail(rows), c, val)

\* a[:, :-1]
DropLastColumn(a) ==
    Array(a.dtype, a.width, a.nrows, a.ncols - 1,
          [r \in 1..a.nrows |-> SubSeq(a.cells[r], 1, a.ncols - 1)])

\* a[:, -1]
LastColumn(a) == [r \in 1..a.nrows |-> a.cells[r][a.ncols]]

\* the subsequence of q at the positions (from 1) that are not in drop
RECURSIVE Without(_, _, _)
Without(q, drop, i) ==
    IF i > Len(q) THEN <<>>
    ELSE (IF i \in drop THEN <<>> ELSE <<q[i]>>) \o Without(q, drop, i + 1)

\* np.delete(a, rows, 0), rows counted from 0
DeleteRows(a, rows) ==
    LET kept == Without(a.cells, {r + 1 : r \in rows}, 1)
    IN  Array(a.dtype, a.width, Len(kept), a.ncols, kept)

\* a deletion that takes the last column too: what C20 tells from the
\* code's
DeleteColumnsAndLast(a, cols) ==
    Array(a.dtype, a.width, a.nrows,
          a.ncols - Cardinality(({c + 1 : c \in cols} \cup {a.ncols}) \cap (1..a.ncols)),
          [r \in 1..a.nrows |-> Without(a.cells[r], {c + 1 : c \in cols} \cup {a.ncols}, 1)])

\* np.delete(a, cols, 1), columns counted from 0
DeleteColumns(a, cols) ==
    LET drop == {c + 1 : c \in cols}
    IN  Array(a.dtype, a.width, a.nrows, a.ncols - Cardinality(drop \cap (1..a.ncols)),
              [r \in 1..a.nrows |-> Without(a.cells[r], drop, 1)])

(***************************************************************************)
(* Files.  A file is the sequence of its lines, a line the sequence of     *)
(* its comma-separated cells.                                              *)
(***************************************************************************)
t0 == <<"0">>
t1 == <<"1">>
t2 == <<"2">>
t3 == <<"3">>
t4 == <<"4">>
t5 == <<"5">>
t6 == <<"6">>
t7 == <<"7">>
t8 == <<"8">>
t9 == <<"9">>
tRed == <<"r", "e", "d">>
tA == <<"a">>
tB == <<"b">>
tBlank == <<>>

\* four data points with two features
FileNumeric == [name |-> "numeric",
                lines |-> << <<t1, t2>>, <<t3, t4>>, <<t5, t6>>, <<t7, t8>> >>]

\* "red" in rows 0 and 2 of the second column, the rest numeric
FileRed == [name |-> "red",
            lines |-> << <<t1, tRed, t7>>, <<t2, t5, t8>>, <<t3, tRed, t9>> >>]

\* one-character cells: a repeated value and a blank in the second column,
\* a non-numeric value in the last column
FileMixed == [name |-> "mixed",
              lines |-> << <<t1, tA, t4>>, <<t2, tBlank, tB>>, <<t3, tA, t6>>, <<t5, t7, t8>> >>]

FileRagged == [name |-> "ragged", lines |-> << <<t1, t2>>, <<t3>> >>]

FileEmpty == [name |-> "empty", lines |-> << >>]

FileOneRow == [name |-> "onerow", lines |-> << <<t1, t2>> >>]

FileOneColumn == [name |-> "onecolumn", lines |-> << <<t1>>, <<t2>> >>]

\* two data points with two features, every value zero
FileZeros == [name |-> "zeros", lines |-> << <<t0, t0>>, <<t0, t0>> >>]

\* one data point, every value zero
FileOneRowZeros == [name |-> "onerowzeros", lines |-> << <<t0, t0>> >>]

\* a repeated value and two blanks in the second column; in the last column
\* a repeated sign, the number -99999 and the number -2.5
FileSigns == [name |-> "signs",
              lines |-> << <<t1, tA, <<"-">> >>,
                           <<t2, tBlank, <<"-", "9", "9", "9", "9", "9">> >>,
                           <<t3, tA, <<"-">> >>,
                           <<t4, tBlank, <<"-", "2", ".", "5">> >> >>]

\* two data points with three features
FileTwoRows == [name |-> "tworows", lines |-> << <<t1, t2, t3>>, <<t4, t5, t6>> >>]

\* three data points; fractions in every column
FileFractions == [name |-> "fractions",
                  lines |-> << << <<"1", ".", "5">>, <<"2", ".", "2", "5">>, t1 >>,
                               << t3, <<"4", ".", "5">>, <<"2", ".", "5">> >>,
                               << <<"0", ".", "5">>, t7, t1 >> >>]

NoFile == [name |-> "", lines |-> << >>]

MaxOf(S) == CHOOSE m \in S : \A x \in S : x <= m

\* the width w of the '<Uw' array that holds every cell of the file as text
FileWidth(f) ==
    MaxOf({1} \cup UNION {{Len(f.lines[r][c]) : c \in 1..Len(f.lines[r])} :
                          r \in 1..Len(f.lines)})

(***************************************************************************)
(* np.genfromtxt                                                           *)
(***************************************************************************)
\* genfromtxt raises ValueError ("... columns instead of ...") when a line
\* has another number of cells than the first
GenfromtxtRagged(f) ==
    \E r \in 1..Len(f.lines) : Len(f.lines[r]) # Len(f.lines[1])

\* the float conversion of a cell that genfromtxt makes: nan when float()
\* fails
LooseFloat(t) ==
    LET p == ParseFloat(t) IN IF p.ok THEN NumCell(p.v) ELSE NaNCell

\* np.genfromtxt(data_file, delimiter=','): kind is the number of
\* dimensions of the result ("1d" with no rows for a file without data)
GenfromtxtFloat(f) ==
    LET n  == Len(f.lines)
        nc == IF n = 0 THEN 0 ELSE Len(f.lines[1])
    IN  [kind |-> IF n = 0 THEN "1d"
                  ELSE IF n = 1 /\ nc = 1 THEN "0d"
                  ELSE IF n = 1 \/ nc = 1 THEN "1d"
                  ELSE "2d",
         a |-> Array("float", 0, n, nc,
                     [r \in 1..n |-> [c \in 1..nc |-> LooseFloat(f.lines[r][c])]])]

\* self.file_data = [] (a list, not an array)
FileDataList == [kind |-> "list", a |-> NoArray]

\* file_data.any()
AnyNonZero(fd) ==
    \E r \in 1..fd.a.nrows : \E c \in 1..fd.a.ncols :
        fd.a.cells[r][c].k = "nan" \/ fd.a.cells[r][c].v # 0

\* np.genfromtxt(data_file, dtype=str, delimiter=',', ...): every cell as
\* text, in a '<Uw' array with w the longest cell
GenfromtxtStr(f) ==
    LET n  == Len(f.lines)
        nc == Len(f.lines[1])
    IN  Array("str", FileWidth(f), n, nc,
              [r \in 1..n |-> [c \in 1..nc |-> StrCell(f.lines[r][c])]])

\* np.isnan(row).any() for some row
HasNaN(a) ==
    \E r \in 1..a.nrows : \E c \in 1..a.ncols : a.cells[r][c].k = "nan"

(***************************************************************************)
(* The catalog of non-numeric values: non_number_values_file[col] is a     *)
(* list of [col, rows, raw, mapped] (value[0..3] in the code), col and     *)
(* rows counted from 0.                                                    *)
(***************************************************************************)
tFill == <<"-", "9", "9", "9", "9", "9">>
tFillFloat == <<"-", "9", "9", "9", "9", "9", ".", "0">>

\* the else branch of "if value and not value == '-99999' and not value ==
\* '-99999.0'": the cell is taken as blank
TakenAsBlank(value) == value = <<>> \/ value = tFill \/ value = tFillFloat

\* the three str.isnumeric tests on a cell that is not taken as blank
TakenAsNonNumeric(value) ==
    IF value[1] = "-"
    THEN ~IsNumeric(ReplaceFirst(ReplaceFirst(value, "-"), "."))
    ELSE IF value[1] = "+"
    THEN ~IsNumeric(ReplaceFirst(ReplaceFirst(value, "+"), "."))
    ELSE ~IsNumeric(ReplaceFirst(value, "."))

\* every row opens an entry of its own: what C15 tells from the code's
AddToColumnApart(entries, col, row, raw) ==
    Append(entries, [col |-> col, rows |-> <<row>>, raw |-> raw, mapped |-> None])

\* the row joins the first entry with the same raw value, or opens an entry
AddToColumn(entries, col, row, raw) ==
    LET same == {i \in 1..Len(entries) : entries[i].raw = raw}
    IN  IF same # {}
        THEN LET i == CHOOSE j \in same : \A k \in same : j <= k
             IN  [entries EXCEPT ![i].rows = Append(@, row)]
        ELSE Append(entries, [col |-> col, rows |-> <<row>>, raw |-> raw, mapped |-> None])

\* the loop over the rows of one column, from row on
RECURSIVE ColumnEntries(_, _, _, _)
ColumnEntries(all, col, row, entries) ==
    IF row >= all.nrows THEN entries
    ELSE LET value == all.cells[row + 1][col + 1].s
         IN  ColumnEntries(all, col, row + 1,
                 IF TakenAsBlank(value) THEN AddToColumn(entries, col, row, <<>>)
                 ELSE IF TakenAsNonNumeric(value) THEN AddToColumn(entries, col, row, value)
                 ELSE entries)

\* attribute_data_all after the loop: the cells taken as blank are set to ""
BlankedCells(all) ==
    [all EXCEPT !.cells = [r \in 1..all.nrows |-> [c \in 1..all.ncols |->
        IF TakenAsBlank(all.cells[r][c].s) THEN StrCell(<<>>) ELSE all.cells[r][c]]]]

\* non_number_values_file once the columns without entries are dropped
RECURSIVE NonEmptyColumns(_, _)
NonEmptyColumns(all, col) ==
    IF col >= all.ncols THEN <<>>
    ELSE LET e == ColumnEntries(all, col, 0, <<>>)
         IN  (IF e = <<>> THEN <<>> ELSE <<e>>) \o NonEmptyColumns(all, col + 1)

BuildCatalog(all) == NonEmptyColumns(all, 0)

\* every value of every feature has a truthy value[3]
AllAssigned(catalog) ==
    \A f \in 1..Len(catalog) : \A i \in 1..Len(catalog[f]) : Truthy(catalog[f][i].mapped)

(***************************************************************************)
(* The session.  A handler is an operator from the session state s (a      *)
(* record of the object's attributes and of the widgets' states) to the    *)
(* state it leaves.  An exception that no handler catches ends the         *)
(* handler where it is raised: s.failure names it and every later          *)
(* statement is skipped.                                                   *)
(*                                                                         *)
(* Arrays are objects: attribute_data_all, attribute_data and the          *)
(* attribute_data_window<n> of the display slots are references (0: the    *)
(* attribute is not set) into heap, so that an in-place write shows        *)
(* through every name of the array.                                        *)
(***************************************************************************)
\* the array objects a state can name: one per reference
MaxObjects == 4

Ids == 1..MaxObjects

Slots == {1, 2}

Fail(s, what) == [s EXCEPT !.failure = what]

Running(s) == s.failure = "none"

\* the references held by the display slots
WindowRefs(s) == {s.windows[w].attribute_data : w \in Slots}

\* an object to hold a new array, while the objects in keep are in use
FreshId(keep) == CHOOSE i \in Ids : i \notin keep

\* a new array object for attribute_data
NewAttributeData(s, a) ==
    LET id == FreshId({s.attribute_data_all} \cup WindowRefs(s))
    IN  [s EXCEPT !.heap[id] = a, !.attribute_data = id]

\* a new array object for attribute_data_all
NewAttributeDataAll(s, a) ==
    LET id == FreshId({s.attribute_data} \cup WindowRefs(s))
    IN  [s EXCEPT !.heap[id] = a, !.attribute_data_all = id]

\* self.attribute_data = self.attribute_data.astype(float)
AttributeDataAstypeFloat(s) ==
    IF ~AstypeFloatOk(s.heap[s.attribute_data])
    THEN Fail(s, "ValueError: could not convert string to float")
    ELSE NewAttributeData(s, AstypeFloat(s.heap[s.attribute_data]))

(***************************************************************************)
(* The side panel: the accessible names of the removable widgets that are  *)
(* in side_panel_layout.  The widgets added in __init__ are always there.  *)
(***************************************************************************)
removable_widgets_load_data ==
    {"File Data Error", "Data Classes Count", "Data Non Numbers Text",
     "Data Non Numbers Options", "Data Non Numbers Values Container",
     "Number of Clusters Text", "Number of Clusters Input"}

removable_widgets_process_data ==
    {"Data Classes Count", "Data Non Numbers Text", "Data Non Numbers Options",
     "Data Non Numbers Values Container"}

FixedWidgets == {"Load Data", "Data Classes Option", "Clustering Algorithm Options"}

\* insert_widget: after the preceding widget, when that is in the layout
insert_widget(panel, preceding, inserted) ==
    IF preceding \in panel \cup FixedWidgets THEN panel \cup {inserted} ELSE panel

remove_widget(panel, removed) == panel \ {removed}

(***************************************************************************)
(* display_data_clustering_enable                                          *)
(***************************************************************************)
ReadyFlags(s) ==
    /\ s.data_imported
    /\ ~s.file_data_error
    /\ (~s.data_non_numbers \/ s.feature_values_non_numbers_entered
            \/ s.feature_values_non_numbers_entered_not_applicable)
    /\ (s.clustering_algorithm_selected
            /\ (s.num_clusters_entered \/ s.num_clusters_not_applicable))
    /\ s.dimension_selected

\* a gate that does not ask for the dimension: what C1 tells from the code's
EnableWithoutDimension(s) ==
    IF ~Running(s) THEN s
    ELSE IF s.data_imported /\ ~s.file_data_error
            /\ (~s.data_non_numbers \/ s.feature_values_non_numbers_entered
                    \/ s.feature_values_non_numbers_entered_not_applicable)
            /\ (s.clustering_algorithm_selected
                    /\ (s.num_clusters_entered \/ s.num_clusters_not_applicable))
    THEN [s EXCEPT !.window1_button = TRUE,
                   !.window2_button = IF s.display_window1 \/ s.display_window2
                                      THEN TRUE ELSE @]
    ELSE [s EXCEPT !.window1_button = FALSE, !.window2_button = FALSE]

\* a gate whose other branch leaves the Display 2 trigger as it is: what C2
\* tells from the code's
EnableLeavingSecond(s) ==
    IF ~Running(s) THEN s
    ELSE IF ReadyFlags(s)
    THEN [s EXCEPT !.window1_button = TRUE,
                   !.window2_button = IF s.display_window1 \/ s.display_window2
                                      THEN TRUE ELSE @]
    ELSE [s EXCEPT !.window1_button = FALSE]

display_data_clustering_enable(s) ==
    IF ~Running(s) THEN s
    ELSE IF ReadyFlags(s)
    THEN [s EXCEPT !.window1_button = TRUE,
                   !.window2_button = IF s.display_window1 \/ s.display_window2
                                      THEN TRUE ELSE @]
    ELSE [s EXCEPT !.window1_button = FALSE, !.window2_button = FALSE]

(***************************************************************************)
(* num_clusters_changed                                                    *)
(***************************************************************************)
\* int(text) is defined for an optional sign and at least one digit
IntTextOk(t) ==
    LET body == IF Len(t) > 0 /\ t[1] \in {"+", "-"} THEN Tail(t) ELSE t
    IN  Len(body) > 0 /\ \A i \in 1..Len(body) : body[i] \in Digits

IntText(t) ==
    LET body == IF t[1] \in {"+", "-"} THEN Tail(t) ELSE t
    IN  IF t[1] = "-" THEN 0 - IntOf(body) ELSE IntOf(body)

num_clusters_changed(s) ==
    IF ~Running(s) THEN s
    ELSE IF ~s.data_imported THEN s
    ELSE IF s.num_clusters_text = <<>> \/ s.num_clusters_text = <<"0">>
    THEN display_data_clustering_enable([s EXCEPT !.num_clusters_entered = FALSE])
    ELSE IF ~IntTextOk(s.num_clusters_text)
    THEN Fail(s, "ValueError: invalid literal for int()")
    ELSE IF s.attribute_data_all = 0
    THEN Fail(s, "AttributeError: attribute_data_all")
    ELSE IF IntText(s.num_clusters_text) <= s.heap[s.attribute_data_all].nrows
    THEN display_data_clustering_enable([s EXCEPT !.num_clusters_entered = TRUE])
    ELSE display_data_clustering_enable([s EXCEPT !.num_clusters_entered = FALSE])

(***************************************************************************)
(* feature_values_non_numbers_changed                                      *)
(***************************************************************************)
feature_values_non_numbers_invalid_input ==
    {<<"-">>, <<"+">>, <<".">>, <<"-", ".">>, <<"+", ".">>}

\* text.rsplit(' ', 1)[0]
RsplitHead(t) ==
    LET at == {i \in 1..Len(t) : t[i] = " "}
    IN  IF at = {} THEN t ELSE SubSeq(t, 1, MaxOf(at) - 1)

\* raw + " (" + text + ")"
WithNumber(raw, text) == raw \o <<" ", "(">> \o text \o <<")">>

\* the entry the two combo boxes select, feature and value counted from 0
SelectedFeature(s) == s.features_index
SelectedValue(s) == s.values_index[s.features_index + 1]
SelectedEntry(s) == s.non_number_values[SelectedFeature(s) + 1][SelectedValue(s) + 1]
SelectedItemText(s) == s.item_text[SelectedFeature(s) + 1][SelectedValue(s) + 1]

\* self.feature_values_non_numbers_entered = True, after astype(float)
EnteredAfter(s) ==
    IF ~Running(s) THEN s ELSE [s EXCEPT !.feature_values_non_numbers_entered = TRUE]

\* a check that leaves the flag as it is when a value has no number: what
\* C3 tells from the code's
CheckAssignedKeepingFlag(s) ==
    IF ~Running(s) THEN s
    ELSE IF AllAssigned(s.non_number_values)
    THEN EnteredAfter(AttributeDataAstypeFloat(s))
    ELSE s

\* the check that every non-numeric value has a number, and what follows it
CheckAssigned(s) ==
    IF ~Running(s) THEN s
    ELSE IF AllAssigned(s.non_number_values)
    THEN EnteredAfter(AttributeDataAstypeFloat(s))
    ELSE [s EXCEPT !.feature_values_non_numbers_entered = FALSE]

\* value[3] = number (None: ""), the writes of it into attribute_data, and
\* setItemText(label) when the writes have not raised
StoreNumber(s, number, val, label) ==
    LET fi == SelectedFeature(s) + 1
        vi == SelectedValue(s) + 1
    IN  IF ~AssignOk(s.heap[s.attribute_data], val) /\ SelectedEntry(s).rows # <<>>
        THEN Fail([s EXCEPT !.non_number_values[fi][vi].mapped = number],
                  "ValueError: could not convert string to float")
        ELSE [s EXCEPT !.non_number_values[fi][vi].mapped = number,
                       !.heap[s.attribute_data] =
                           SetCells(@, SelectedEntry(s).rows, SelectedEntry(s).col, val),
                       !.item_text[fi][vi] = label]

\* the three branches of lines 668-695
StoreInput(s) ==
    LET raw   == SelectedEntry(s).raw
        ctext == SelectedItemText(s)
        text  == s.input_text
        valid == text # <<>> /\ text \notin feature_values_non_numbers_invalid_input
    IN  IF raw = ctext /\ valid
        THEN StoreNumber(s, text, PyText(text), WithNumber(ctext, text))
        ELSE IF raw # ctext /\ valid
        THEN StoreNumber(s, text, PyText(text), WithNumber(RsplitHead(ctext), text))
        ELSE IF raw # ctext /\ ~valid
        THEN StoreNumber(s, <<>>, PyNone, RsplitHead(ctext))
        ELSE s

feature_values_non_numbers_changed(s) ==
    IF ~Running(s) THEN s
    ELSE display_data_clustering_enable(CheckAssigned(StoreInput(s)))

\* feature_values_non_numbers_input.setText(text): textChanged is emitted,
\* and the handler runs, when the text changes; None sets the empty text
SetInputText(s, text) ==
    LET new == IF text = None THEN <<>> ELSE text
    IN  IF ~Running(s) \/ new = s.input_text THEN s
        ELSE feature_values_non_numbers_changed([s EXCEPT !.input_text = new])

(***************************************************************************)
(* feature_values_non_numbers_selection_changed and                        *)
(* feature_non_numbers_selection_changed                                   *)
(***************************************************************************)
feature_values_non_numbers_selection_changed(s) ==
    IF ~Running(s) THEN s
    ELSE SetInputText(s, SelectedEntry(s).mapped)

\* inserted_widget.setCurrentIndex(0), lines 637-646: the value combo box of
\* the feature is put to its first item, which runs its handler when that
\* changes its index
FirstValueShown(s) ==
    IF "Data Non Numbers Values Container" \in s.side_panel
       /\ s.values_index[s.features_index + 1] # 0
    THEN feature_values_non_numbers_selection_changed(
             [s EXCEPT !.values_index[s.features_index + 1] = 0])
    ELSE s

\* lines 647-648: the input shows the number of the selected value
SelectedNumberShown(s) ==
    IF ~Running(s) THEN s ELSE SetInputText(s, SelectedEntry(s).mapped)

feature_non_numbers_selection_changed(s) ==
    IF ~Running(s) THEN s ELSE SelectedNumberShown(FirstValueShown(s))

(***************************************************************************)
(* data_non_numbers_option_changed                                         *)
(***************************************************************************)
\* the entries of all features, in the order of the loops
RECURSIVE AllEntries(_)
AllEntries(catalog) ==
    IF catalog = <<>> THEN <<>> ELSE Head(catalog) \o AllEntries(Tail(catalog))

\* a fill with 1: what C19 tells from the code's
RECURSIVE OneFilled(_, _)
OneFilled(a, entries) ==
    IF entries = <<>> THEN a
    ELSE OneFilled(SetCells(a, Head(entries).rows, Head(entries).col, PyText(<<"1">>)),
                   Tail(entries))

\* for value in feature: for row in value[1]: a[row, value[0]] = 0
RECURSIVE ZeroFilled(_, _)
ZeroFilled(a, entries) ==
    IF entries = <<>> THEN a
    ELSE ZeroFilled(SetCells(a, Head(entries).rows, Head(entries).col, PyZero),
                    Tail(entries))

\* a[row, value[0]] = value[3] if value[3] else None
RECURSIVE MappingFilled(_, _)
MappingFilled(a, entries) ==
    IF entries = <<>> THEN a
    ELSE MappingFilled(
             SetCells(a, Head(entries).rows, Head(entries).col,
                      IF Truthy(Head(entries).mapped) THEN PyText(Head(entries).mapped)
                      ELSE PyNone),
             Tail(entries))

\* the rows that hold a catalogued value
CatalogRows(catalog) ==
    LET es == AllEntries(catalog)
    IN  UNION {{es[j].rows[i] : i \in 1..Len(es[j].rows)} : j \in 1..Len(es)}

\* feature[0][0] of every feature of the catalog
CatalogColumns(catalog) == {catalog[f][1].col : f \in 1..Len(catalog)}

\* index 0: the empty selection
OptionEmpty(s) ==
    display_data_clustering_enable(
        [s EXCEPT !.side_panel = remove_widget(@, "Data Non Numbers Values Container"),
                  !.feature_values_non_numbers_entered_not_applicable = FALSE,
                  !.feature_values_non_numbers_entered = FALSE])

\* the end of the options 1, 3 and 4
OptionDone(s) ==
    IF ~Running(s) THEN s
    ELSE display_data_clustering_enable(
        [s EXCEPT !.side_panel = remove_widget(@, "Data Non Numbers Values Container"),
                  !.feature_values_non_numbers_entered_not_applicable = TRUE,
                  !.feature_values_non_numbers_entered = FALSE])

\* an option 1 that forgets the numbers entered: what C17 tells from the
\* code's
OptionZeroForgetting(s) ==
    OptionDone(AttributeDataAstypeFloat(
        [s EXCEPT !.attribute_data = s.attribute_data_all,
                  !.heap[s.attribute_data_all] =
                      ZeroFilled(@, AllEntries(s.non_number_values)),
                  !.non_number_values =
                      [f \in 1..Len(@) |->
                          [i \in 1..Len(@[f]) |-> [@[f][i] EXCEPT !.mapped = None]]]]))

\* index 1: all non-numeric values to 0.  attribute_data is attribute_data_all
\* itself, so the zeros are written into attribute_data_all
OptionZero(s) ==
    LET all == s.attribute_data_all
        s1  == [s EXCEPT !.attribute_data = all,
                         !.heap[all] = ZeroFilled(@, AllEntries(s.non_number_values))]
    IN  OptionDone(AttributeDataAstypeFloat(s1))

\* lines 566-572: the container is put back and the flag is reset
ContainerShown(s) ==
    IF ~Running(s) THEN s
    ELSE [s EXCEPT !.side_panel = insert_widget(@, "Data Non Numbers Options",
                                                "Data Non Numbers Values Container"),
                   !.feature_values_non_numbers_entered_not_applicable = FALSE]

\* an option 2 that does not check the numbers again: what C6 tells from the
\* code's
OptionAssignUnchecked(s) ==
    display_data_clustering_enable(ContainerShown(SelectedNumberShown(
        [NewAttributeData(s, MappingFilled(s.heap[s.attribute_data_all],
                                           AllEntries(s.non_number_values)))
            EXCEPT !.window1_button = FALSE, !.window2_button = FALSE,
                   !.side_panel = remove_widget(@, "Data Non Numbers Values Container")])))

\* index 2: each non-numeric value to the number entered for it
OptionAssign(s) ==
    display_data_clustering_enable(CheckAssigned(ContainerShown(SelectedNumberShown(
        [NewAttributeData(s, MappingFilled(s.heap[s.attribute_data_all],
                                           AllEntries(s.non_number_values)))
            EXCEPT !.window1_button = FALSE, !.window2_button = FALSE,
                   !.side_panel = remove_widget(@, "Data Non Numbers Values Container")]))))

\* a row exclusion from the matrix that the option before it left: what C18
\* tells from the code's
OptionExcludeRowsOfLast(s) ==
    OptionDone(AttributeDataAstypeFloat(
        NewAttributeData(s, DeleteRows(s.heap[IF s.attribute_data = 0
                                              THEN s.attribute_data_all
                                              ELSE s.attribute_data],
                                       CatalogRows(s.non_number_values)))))

\* index 3: the rows with a non-numeric value are removed
OptionExcludeRows(s) ==
    LET all == s.heap[s.attribute_data_all]
        s1  == NewAttributeData(s, DeleteRows(all, CatalogRows(s.non_number_values)))
    IN  OptionDone(AttributeDataAstypeFloat(s1))

\* index 4: the columns with a non-numeric value are removed
OptionExcludeColumns(s) ==
    LET all == s.heap[s.attribute_data_all]
        s1  == NewAttributeData(s, DeleteColumns(all, CatalogColumns(s.non_number_values)))
    IN  OptionDone(AttributeDataAstypeFloat(s1))

data_non_numbers_option_changed(s) ==
    IF ~Running(s) THEN s
    ELSE CASE s.policy_index = 0 -> OptionEmpty(s)
           [] s.policy_index = 1 -> OptionZero(s)
           [] s.policy_index = 2 -> OptionAssign(s)
           [] s.policy_index = 3 -> OptionExcludeRows(s)
           [] s.policy_index = 4 -> OptionExcludeColumns(s)

(***************************************************************************)
(* clustering_algorithm_changed, radio_button_selected                     *)
(***************************************************************************)
\* the items of clustering_algorithm_combo_box after the empty one
Algorithms ==
    {"K-Means", "Mean Shift", "DBSCAN", "HDBSCAN", "Gaussian Mixture Models",
     "Agglomerative", "Affinity Propagation", "Spectral", "BIRCH", "OPTICS"}

clustering_algorithms_no_num_clusters_input ==
    {"Mean Shift", "DBSCAN", "HDBSCAN", "Affinity Propagation", "Spectral", "BIRCH",
     "OPTICS"}

\* s.algorithm is the current text of the combo box, "" for index 0
clustering_algorithm_changed(s) ==
    IF ~Running(s) THEN s
    ELSE IF s.algorithm = ""
    THEN display_data_clustering_enable(
             [s EXCEPT !.side_panel = remove_widget(remove_widget(@,
                                          "Number of Clusters Text"), "Number of Clusters Input"),
                       !.clustering_algorithm_selected = FALSE])
    ELSE IF s.algorithm \notin clustering_algorithms_no_num_clusters_input
    THEN display_data_clustering_enable(
             [s EXCEPT !.side_panel = insert_widget(
                                          insert_widget(@, "Clustering Algorithm Options",
                                                        "Number of Clusters Text"),
                                          "Number of Clusters Text", "Number of Clusters Input"),
                       !.clustering_algorithm_selected = TRUE,
                       !.num_clusters_not_applicable = FALSE])
    ELSE display_data_clustering_enable(
             [s EXCEPT !.side_panel = remove_widget(remove_widget(@,
                                          "Number of Clusters Text"), "Number of Clusters Input"),
                       !.clustering_algorithm_selected = TRUE,
                       !.num_clusters_not_applicable = TRUE])

\* the toggled handler of the button that became checked; the handler of
\* the button that became unchecked does nothing
radio_button_selected(s, text) ==
    IF ~Running(s) THEN s
    ELSE display_data_clustering_enable(
             [s EXCEPT !.display_dimension = text, !.dimension_selected = TRUE])

(***************************************************************************)
(* process_data                                                            *)
(***************************************************************************)
\* eight data points with two features, a non-numeric value in one of them
FileEight == [name |-> "eight",
              lines |-> << <<t1, t2>>, <<t3, tA>>, <<t5, t6>>, <<t7, t8>>,
                           <<t2, t1>>, <<t4, t3>>, <<t6, t5>>, <<t8, t7>> >>]

\* four data points with two features and a class, a non-numeric value in
\* a feature of the second
FileClasses == [name |-> "classes",
                lines |-> << <<t1, t2, t1>>, <<t3, tA, t2>>, <<t5, t6, t1>>, <<t7, t8, t2>> >>]

\* the files there are to choose from
AllFiles ==
    {FileNumeric, FileRed, FileMixed, FileRagged, FileEmpty, FileOneRow, FileOneColumn,
     FileZeros, FileOneRowZeros, FileSigns, FileTwoRows,
     FileFractions, FileEight, FileClasses}

\* the content of the file at self.filename
FileNamed(name) == CHOOSE f \in AllFiles : f.name = name

\* a check of the class option that takes a table of two columns: what C14
\* tells from the code's
CheckClassesAnyWidth(s) ==
    IF s.data_with_classes
    THEN IF s.file_data.kind = "list"
         THEN Fail(s, "AttributeError: 'list' object has no attribute 'shape'")
         ELSE [s EXCEPT !.data_non_numbers = HasNaN(DropLastColumn(s.file_data.a))]
    ELSE [s EXCEPT !.side_panel = remove_widget(@, "File Data Error"),
                   !.file_data_error = FALSE,
                   !.data_non_numbers = HasNaN(s.file_data.a)]

\* lines 300-322: the class option against the table, and the search for nan
CheckClasses(s) ==
    IF s.data_with_classes
    THEN IF s.file_data.kind = "list"
         THEN Fail(s, "AttributeError: 'list' object has no attribute 'shape'")
         ELSE IF s.file_data.a.ncols = 2
         THEN [s EXCEPT !.error_label = "MissingClassColumnFeatures",
                        !.side_panel = insert_widget(@, "Data Classes Option",
                                                     "File Data Error"),
                        !.file_data_error = TRUE]
         ELSE [s EXCEPT !.data_non_numbers = HasNaN(DropLastColumn(s.file_data.a))]
    ELSE [s EXCEPT !.side_panel = remove_widget(@, "File Data Error"),
                   !.file_data_error = FALSE,
                   !.data_non_numbers = HasNaN(s.file_data.a)]

\* lines 282-322
ProcessClasses(s) ==
    CheckClasses([s EXCEPT !.side_panel = @ \ removable_widgets_process_data,
                           !.data_non_numbers = FALSE,
                           !.button3D_enabled = TRUE])

\* lines 333-343: the table as text
AttributesOfText(s, text) ==
    IF s.data_with_classes
    THEN [NewAttributeDataAll(s, DropLastColumn(text)) EXCEPT !.class_data = LastColumn(text)]
    ELSE NewAttributeDataAll(s, text)

\* self.attribute_data = self.attribute_data_all, and the flag
AttributesAreAll(s) ==
    [s EXCEPT !.attribute_data = s.attribute_data_all,
              !.feature_values_non_numbers_entered_not_applicable = TRUE]

\* lines 345-355: the table as numbers
AttributesOfNumbers(s) ==
    IF s.data_with_classes
    THEN AttributesAreAll([NewAttributeDataAll(s, DropLastColumn(s.file_data.a))
                              EXCEPT !.class_data = LastColumn(s.file_data.a)])
    ELSE AttributesAreAll(NewAttributeDataAll(s, s.file_data.a))

\* line 357: self.attribute_data_all.shape, which a list does not have
ShapeOfAll(s) ==
    IF s.file_data.kind = "list" /\ ~s.data_non_numbers
    THEN Fail(s, "AttributeError: 'list' object has no attribute 'shape'")
    ELSE s

AttributesRead(s) ==
    IF s.data_non_numbers THEN AttributesOfText(s, GenfromtxtStr(FileNamed(s.filename)))
    ELSE IF s.file_data.kind = "list"
    THEN [s EXCEPT !.feature_values_non_numbers_entered_not_applicable = TRUE]
    ELSE AttributesOfNumbers(s)

\* lines 326-357: attribute_data_all, attribute_data and class_data
ProcessAttributes(s) ==
    IF ~Running(s) THEN s
    ELSE ShapeOfAll(AttributesRead([s EXCEPT !.attribute_data_all = 0,
                                             !.attribute_data = 0,
                                             !.class_data = <<>>]))

\* lines 357-412: the catalog of the non-numeric values
Catalogued(s) ==
    IF s.data_non_numbers
    THEN [s EXCEPT !.non_number_values = BuildCatalog(s.heap[s.attribute_data_all]),
                   !.heap[s.attribute_data_all] = BlankedCells(@)]
    ELSE [s EXCEPT !.non_number_values = <<>>]

\* lines 414-421: the label with the number of classes
ClassesCounted(s) ==
    IF s.data_with_classes
    THEN [s EXCEPT !.side_panel = insert_widget(@, "Data Classes Option",
                                                "Data Classes Count")]
    ELSE s

\* lines 423-477: the widgets of the non-numeric values, new, and the option
\* that is selected for them
NonNumbersWidgets(s) ==
    IF ~s.data_non_numbers THEN s
    ELSE IF s.non_number_values = <<>>
    THEN Fail(s, "IndexError: list index out of range")
    ELSE data_non_numbers_option_changed(
             [s EXCEPT !.features_index = 0,
                       !.values_index = [f \in 1..Len(s.non_number_values) |-> 0],
                       !.item_text = [f \in 1..Len(s.non_number_values) |->
                                         [i \in 1..Len(s.non_number_values[f]) |->
                                             s.non_number_values[f][i].raw]],
                       !.input_text = <<>>,
                       !.side_panel = insert_widget(
                           insert_widget(@, IF s.data_with_classes
                                            THEN "Data Classes Count"
                                            ELSE "Data Classes Option",
                                         "Data Non Numbers Text"),
                           "Data Non Numbers Text", "Data Non Numbers Options")])

\* lines 357-477
ProcessNonNumbers(s) ==
    IF ~Running(s) THEN s ELSE NonNumbersWidgets(ClassesCounted(Catalogued(s)))

\* lines 479-489: no 3D display when 2 is in attribute_data_all.shape
Process3D(s) ==
    IF ~Running(s) THEN s
    ELSE LET all == s.heap[s.attribute_data_all]
         IN  IF all.nrows = 2 \/ all.ncols = 2
             THEN IF s.checked_button = "3D"
                  THEN [s EXCEPT !.checked_button = "", !.display_dimension = "",
                                 !.dimension_selected = FALSE,
                                 !.button3D_enabled = FALSE]
                  ELSE [s EXCEPT !.button3D_enabled = FALSE]
             ELSE s

\* line 325: the data is processed when it has no error
ProcessChecked(s) ==
    IF Running(s) /\ ~s.file_data_error
    THEN Process3D(ProcessNonNumbers(ProcessAttributes(s)))
    ELSE s

process_data(s) ==
    IF ~Running(s) \/ ~s.data_imported THEN s
    ELSE display_data_clustering_enable(num_clusters_changed(
             ProcessChecked(ProcessClasses(s))))

(***************************************************************************)
(* data_with_classes_option_changed                                        *)
(***************************************************************************)
data_with_classes_option_changed(s) ==
    IF ~Running(s) THEN s
    ELSE process_data([s EXCEPT !.data_with_classes = s.data_with_classes_checked])

(***************************************************************************)
(* load_data                                                               *)
(***************************************************************************)
\* lines 198-199, which run before the dialog is shown
BeforeDialog(s) == [s EXCEPT !.file_data = FileDataList]

\* lines 209-237: the widgets and the flags are reset; putting a combo box
\* or the input to its empty state runs its handler when that is a change
ResetOption(s) ==
    IF s.policy_index # 0
    THEN data_non_numbers_option_changed([s EXCEPT !.policy_index = 0])
    ELSE s

ResetAlgorithm(s) ==
    IF s.algorithm # ""
    THEN clustering_algorithm_changed([s EXCEPT !.algorithm = ""])
    ELSE s

ResetNumClusters(s) ==
    IF s.num_clusters_text # <<>>
    THEN num_clusters_changed([s EXCEPT !.num_clusters_text = <<>>])
    ELSE s

\* a reset that leaves the dimension checked and selected: what C34 tells
\* from the code's
ResetFlagsKeepingDimension(s) ==
    IF ~Running(s) THEN s
    ELSE [s EXCEPT !.data_imported = FALSE,
                   !.file_data_error = FALSE,
                   !.data_non_numbers = FALSE,
                   !.feature_values_non_numbers_entered = FALSE,
                   !.feature_values_non_numbers_entered_not_applicable = FALSE,
                   !.clustering_algorithm_selected = FALSE,
                   !.num_clusters_entered = FALSE,
                   !.num_clusters_not_applicable = FALSE]

ResetFlags(s) ==
    IF ~Running(s) THEN s
    ELSE [s EXCEPT !.checked_button = "",
                   !.data_imported = FALSE,
                   !.file_data_error = FALSE,
                   !.data_non_numbers = FALSE,
                   !.feature_values_non_numbers_entered = FALSE,
                   !.feature_values_non_numbers_entered_not_applicable = FALSE,
                   !.clustering_algorithm_selected = FALSE,
                   !.num_clusters_entered = FALSE,
                   !.num_clusters_not_applicable = FALSE,
                   !.dimension_selected = FALSE]

ResetSelections(s) ==
    ResetFlags(ResetNumClusters(ResetAlgorithm(ResetOption(
        [s EXCEPT !.side_panel = @ \ removable_widgets_load_data]))))

LoadError(s, what) ==
    [s EXCEPT !.error_label = what,
              !.side_panel = insert_widget(@, "Data Classes Option", "File Data Error"),
              !.file_data_error = TRUE]

\* lines 249-274: the checks of the table that was read
CheckFile(s, f) ==
    IF ~AnyNonZero(s.file_data) THEN LoadError(s, "EmptyFile")
    ELSE IF Len(f.lines) = 1 \/ s.file_data.kind = "0d"
    THEN LoadError(s, "InsufficientRows")
    ELSE IF s.file_data.kind = "1d" THEN LoadError(s, "InsufficientColumns")
    ELSE process_data([s EXCEPT !.data_imported = TRUE,
                                !.file_data_error = FALSE,
                                !.data_non_numbers = FALSE,
                                !.feature_values_non_numbers_entered = FALSE,
                                !.feature_values_non_numbers_entered_not_applicable = FALSE])

\* lines 240-274: the file is read and checked
ReadFile(s, f) ==
    IF ~Running(s) THEN s
    ELSE IF Len(f.lines) > 0 /\ GenfromtxtRagged(f)
    THEN LoadError(s, "MalformedRow")
    ELSE CheckFile([s EXCEPT !.file_data = GenfromtxtFloat(f)], f)

\* the dialog is accepted with the file f
load_data(s, f) ==
    IF ~Running(s) THEN s
    ELSE ReadFile(ResetSelections([BeforeDialog(s) EXCEPT !.filename = f.name]), f)

\* the dialog is cancelled
load_data_cancelled(s) ==
    IF ~Running(s) THEN s ELSE BeforeDialog(s)

(***************************************************************************)
(* display_data_clustering and close_display_window.  The clustering       *)
(* algorithms, PCA and rand_score are the library's: the model keeps what  *)
(* they are called with, the inputs they reject and the shape of what      *)
(* they return.                                                            *)
(***************************************************************************)
\* an optional value: <<>> is None
Nothing == <<>>
Some(x) == <<x>>

\* the default n_clusters of SpectralClustering, line 825
SpectralDefaultClusters == 8

\* min_samples of HDBSCAN and OPTICS, lines 810 and 838
MinSamples == 2

\* whether the array is one the library takes: numbers only, some rows
IsNumericArray(s, ref) ==
    /\ ref # 0
    /\ s.heap[ref].dtype = "float"
    /\ \A r \in 1..s.heap[ref].nrows : \A c \in 1..s.heap[ref].ncols :
           s.heap[ref].cells[r][c].k = "num"

\* PCA(dimension).fit_transform(self.attribute_data)
PcaAccepts(s, dimension) ==
    /\ IsNumericArray(s, s.attribute_data)
    /\ dimension <= Min(s.heap[s.attribute_data].nrows, s.heap[s.attribute_data].ncols)

\* a dispatch that hands the number entered to every algorithm: what C29
\* tells from the code's
FitClustersToAll(s, algorithm, num_clusters) ==
    Some(num_clusters)

\* a dispatch that takes the rows of Spectral from the table before the
\* option for the non-numeric values: what C32 tells from the code's
FitClustersOfTable(s, algorithm, num_clusters) ==
    CASE algorithm \in {"K-Means", "Gaussian Mixture Models", "Agglomerative"}
             -> Some(num_clusters)
      [] algorithm = "Spectral"
             -> IF s.attribute_data_all # 0
                   /\ s.heap[s.attribute_data_all].nrows < SpectralDefaultClusters
                THEN Some(s.heap[s.attribute_data_all].nrows)
                ELSE Nothing
      [] OTHER -> Nothing

\* the n_clusters (n_components) argument of the constructor, lines 797-839
FitClusters(s, algorithm, num_clusters) ==
    CASE algorithm \in {"K-Means", "Gaussian Mixture Models", "Agglomerative"}
             -> Some(num_clusters)
      [] algorithm = "Spectral"
             -> IF s.attribute_data # 0
                   /\ s.heap[s.attribute_data].nrows < SpectralDefaultClusters
                THEN Some(s.heap[s.attribute_data].nrows)
                ELSE Nothing
      [] OTHER -> Nothing

FitMinSamples(algorithm) ==
    IF algorithm \in {"HDBSCAN", "OPTICS"} THEN Some(MinSamples) ELSE Nothing

\* a call that fits the algorithm to the projected data: what C28 tells from
\* the code's
FitCallOnProjection(s, algorithm, num_clusters) ==
    [algorithm   |-> algorithm,
     n_clusters  |-> FitClusters(s, algorithm, num_clusters),
     min_samples |-> FitMinSamples(algorithm),
     data        |-> "pca_data"]

\* the call of the clustering algorithm, as the library sees it
FitCall(s, algorithm, num_clusters) ==
    [algorithm   |-> algorithm,
     n_clusters  |-> FitClusters(s, algorithm, num_clusters),
     min_samples |-> FitMinSamples(algorithm),
     data        |-> "attribute_data"]

NoCall == [algorithm |-> "", n_clusters |-> Nothing, min_samples |-> Nothing, data |-> ""]

\* the library raises for a count that is not between 1 and the number of
\* rows, and for an array that is not numeric
FitAccepts(s, call) ==
    /\ IsNumericArray(s, s.attribute_data)
    /\ s.heap[s.attribute_data].nrows >= 1
    /\ call.n_clusters # Nothing =>
           /\ call.n_clusters[1] >= 1
           /\ call.n_clusters[1] <= s.heap[s.attribute_data].nrows

\* labels_ of the fitted model: one label per row.  Which rows share a label
\* is the library's choice; the model lets it choose among the labelings
\* that deal the rows round over the clusters from an offset
NumLabels(s, call) ==
    IF call.n_clusters # Nothing THEN call.n_clusters[1]
    ELSE Min(2, s.heap[s.attribute_data].nrows)

FitLabels(s, call, offset) ==
    [r \in 1..s.heap[s.attribute_data].nrows |-> (r - 1 + offset) % NumLabels(s, call)]

\* rand_score(class_data, labels): the pairs of data points that the two
\* labelings treat alike, of all pairs
RandScore(classes, labels) ==
    LET pairs == {p \in (1..Len(labels)) \X (1..Len(labels)) : p[1] < p[2]}
    IN  [agree |-> Cardinality({p \in pairs :
                       (classes[p[1]] = classes[p[2]]) = (labels[p[1]] = labels[p[2]])}),
         pairs |-> Cardinality(pairs)]

\* the figure of a display: which data its points are taken from, and in
\* how many dimensions they are plotted
NoPlot == [data |-> "", dimension |-> Nothing]

NoSnapshot ==
    [attribute_data |-> 0, clustering_data_labels |-> <<>>,
     data_clustering_algorithm |-> "", num_clusters |-> Nothing,
     class_data |-> Nothing, clustering_metric |-> Nothing, plot |-> NoPlot]

\* lines 850-861: the figure scatters the columns of pca_data
PlotOf(s) == [data |-> "pca_data", dimension |-> s.backend.pca]

\* lines 900-917 and 959-976: what the slot keeps of the clustering
Snapshot(s, algorithm, num_clusters, labels) ==
    [attribute_data |-> s.attribute_data,
     clustering_data_labels |-> labels,
     data_clustering_algorithm |-> algorithm,
     num_clusters |-> IF algorithm \notin clustering_algorithms_no_num_clusters_input
                      THEN Some(num_clusters) ELSE Nothing,
     class_data |-> IF s.data_with_classes THEN Some(s.class_data) ELSE Nothing,
     clustering_metric |-> IF s.data_with_classes
                           THEN Some(RandScore(s.class_data, labels)) ELSE Nothing,
     plot |-> PlotOf(s)]

\* a slot that keeps the classes and the metric it has when the clustering
\* has none: what C27 tells from the code's
ShownKeepingClasses(s, slot, snapshot) ==
    IF slot = 1
    THEN [s EXCEPT !.windows[1] =
                       IF snapshot.class_data = Nothing
                       THEN [snapshot EXCEPT !.class_data = s.windows[1].class_data,
                                             !.clustering_metric = s.windows[1].clustering_metric]
                       ELSE snapshot,
                   !.window2_button = TRUE,
                   !.display_window1 = TRUE]
    ELSE [s EXCEPT !.windows[2] =
                       IF snapshot.class_data = Nothing
                       THEN [snapshot EXCEPT !.class_data = s.windows[2].class_data,
                                             !.clustering_metric = s.windows[2].clustering_metric]
                       ELSE snapshot,
                   !.display_window2 = TRUE]

\* lines 900-923 and 959-976: the slot keeps the clustering and is shown
Shown(s, slot, snapshot) ==
    IF slot = 1
    THEN [s EXCEPT !.windows[1] = snapshot,
                   !.window2_button = TRUE,
                   !.display_window1 = TRUE]
    ELSE [s EXCEPT !.windows[2] = snapshot,
                   !.display_window2 = TRUE]

\* lines 886-890: rand_score raises for labelings of different lengths
Scored(s, slot, num_clusters, labels) ==
    IF s.data_with_classes /\ Len(s.class_data) # Len(labels)
    THEN Fail(s, "ValueError: rand_score")
    ELSE Shown(s, slot, Snapshot(s, s.algorithm, num_clusters, labels))

\* lines 797-839: the clustering algorithm is constructed and fitted
Fitted(s, slot, offset, num_clusters, call) ==
    IF ~FitAccepts(s, call)
    THEN Fail([s EXCEPT !.backend.fit = call], "ValueError: fit")
    ELSE Scored([s EXCEPT !.backend.fit = call], slot, num_clusters,
                FitLabels(s, call, offset))

\* lines 790-791: PCA(dimension).fit_transform(self.attribute_data)
Reduced(s, slot, offset, num_clusters, dimension) ==
    IF ~PcaAccepts(s, dimension)
    THEN Fail([s EXCEPT !.backend = [pca |-> Some(dimension), fit |-> NoCall]],
              "ValueError: PCA")
    ELSE Fitted([s EXCEPT !.backend = [pca |-> Some(dimension), fit |-> NoCall]],
                slot, offset, num_clusters, FitCall(s, s.algorithm, num_clusters))

\* the button of the slot was clicked; offset is the library's choice
display_data_clustering(s, slot, offset) ==
    IF ~Running(s) THEN s
    ELSE IF s.num_clusters_text # <<>> /\ ~IntTextOk(s.num_clusters_text)
    THEN Fail(s, "ValueError: invalid literal for int()")
    ELSE Reduced(s, slot, offset,
                 IF s.num_clusters_text = <<>> THEN 0 ELSE IntText(s.num_clusters_text),
                 IF s.display_dimension = "2D" THEN 2 ELSE 3)

\* a close that leaves the Display 2 button as it is: what C35 tells from
\* the code's
CloseLeavingSecond(s, slot) ==
    IF ~Running(s) THEN s
    ELSE IF slot = 1
    THEN [s EXCEPT !.display_window1 = FALSE]
    ELSE [s EXCEPT !.display_window2 = FALSE]

\* the Close button of the slot's display was clicked
close_display_window(s, slot) ==
    IF ~Running(s) THEN s
    ELSE IF slot = 1
    THEN [s EXCEPT !.display_window1 = FALSE,
                   !.window2_button = IF ~s.display_window2 THEN FALSE ELSE @]
    ELSE [s EXCEPT !.display_window2 = FALSE,
                   !.window2_button = IF ~s.display_window1 THEN FALSE ELSE @]

(***************************************************************************)
(* save_data_clustering.  A saved file is the sequence of its lines, each  *)
(* a text; the fixed phrases of the lines after the data, and the name of  *)
(* the algorithm, are one element of the text each.                        *)
(***************************************************************************)
\* the digits after the point that fmt='%.9f' writes
SavetxtDigits == 9

\* the names the user gives in the Save As dialog ("": the dialog is
\* cancelled) and the types of its filter
SaveNames == {"", "out"}
SaveTypes == {"txt", "csv", "png"}
SaveTargets == (SaveNames \ {""}) \X SaveTypes

NoContent == [kind |-> "none", lines |-> <<>>]
TextContent(lines) == [kind |-> "text", lines |-> lines]
ImageContent == [kind |-> "image", lines |-> <<>>]

Abs(n) == IF n < 0 THEN 0 - n ELSE n

RECURSIVE PadLeft(_, _)
PadLeft(t, n) == IF Len(t) >= n THEN t ELSE PadLeft(<<"0">> \o t, n)

Zeros(n) == [i \in 1..n |-> "0"]

\* str(n) of an int
StrOfInt(n) == IF n < 0 THEN <<"-">> \o StrOfNat(0 - n) ELSE StrOfNat(n)

\* '%.9f' % value, of a cell of a float array
FormatFloat9(c) ==
    IF c.k = "nan" THEN <<"n", "a", "n">>
    ELSE (IF c.v < 0 THEN <<"-">> ELSE <<>>)
         \o StrOfNat(Abs(c.v) \div Scale) \o <<".">>
         \o PadLeft(StrOfNat(Abs(c.v) % Scale), FracDigits)
         \o Zeros(SavetxtDigits - FracDigits)

\* sep.join(texts)
RECURSIVE JoinWith(_, _)
JoinWith(texts, sep) ==
    IF texts = <<>> THEN <<>>
    ELSE IF Len(texts) = 1 THEN texts[1]
    ELSE texts[1] \o sep \o JoinWith(Tail(texts), sep)

\* the lines that np.savetxt(..., fmt='%.9f', delimiter=',') writes
Savetxt(a) ==
    [r \in 1..a.nrows |->
        JoinWith([c \in 1..a.ncols |-> FormatFloat9(a.cells[r][c])], <<",">>)]

\* the first position from i on that does not hold a character of chars
RECURSIVE RunEnd(_, _, _)
RunEnd(t, i, chars) ==
    IF i <= Len(t) /\ t[i] \in chars THEN RunEnd(t, i + 1, chars) ELSE i

\* re.sub(r'\.0*(,)|\.0*$', r'\1', row), from position i on: a point with
\* nothing but zeros up to a comma becomes the comma, and up to the end of
\* the row it becomes nothing
RECURSIVE SubZeroFraction(_, _)
SubZeroFraction(row, i) ==
    IF i > Len(row) THEN <<>>
    ELSE IF row[i] # "." THEN <<row[i]>> \o SubZeroFraction(row, i + 1)
    ELSE IF RunEnd(row, i + 1, {"0"}) > Len(row) THEN <<>>
    ELSE IF row[RunEnd(row, i + 1, {"0"})] = ","
    THEN <<",">> \o SubZeroFraction(row, RunEnd(row, i + 1, {"0"}) + 1)
    ELSE <<".">> \o SubZeroFraction(row, i + 1)

\* the position of the last digit other than 0 in row[from..to], or 0
LastNonZero(row, from, to) ==
    IF \E k \in from..to : row[k] # "0"
    THEN CHOOSE k \in from..to : row[k] # "0" /\ \A m \in (k + 1)..to : row[m] = "0"
    ELSE 0

\* (\.[0-9]*[1-9]+)0+ matches at the point at i, whose digits end before j
FractionWithZeros(row, i, j) ==
    /\ LastNonZero(row, i + 1, j - 1) # 0
    /\ LastNonZero(row, i + 1, j - 1) < j - 1

\* re.sub(r'(\.[0-9]*[1-9]+)0+(,)|(\.[0-9]*[1-9]+)0+$', r'\1\2', row), from
\* position i on.  In the second alternative the fraction is group 3, and
\* the groups 1 and 2 of the replacement have not matched: they are empty
RECURSIVE SubTrailingZeros(_, _)
SubTrailingZeros(row, i) ==
    IF i > Len(row) THEN <<>>
    ELSE IF row[i] # "." THEN <<row[i]>> \o SubTrailingZeros(row, i + 1)
    ELSE IF ~FractionWithZeros(row, i, RunEnd(row, i + 1, Digits))
    THEN <<".">> \o SubTrailingZeros(row, i + 1)
    ELSE IF RunEnd(row, i + 1, Digits) > Len(row) THEN <<>>
    ELSE IF row[RunEnd(row, i + 1, Digits)] = ","
    THEN SubSeq(row, i, LastNonZero(row, i + 1, RunEnd(row, i + 1, Digits) - 1))
         \o <<",">> \o SubTrailingZeros(row, RunEnd(row, i + 1, Digits) + 1)
    ELSE <<".">> \o SubTrailingZeros(row, i + 1)

\* the two substitutions on a row read back from the file
WithoutZeros(row) == SubTrailingZeros(SubZeroFraction(row, 1), 1)

RECURSIVE StripZeros(_)
StripZeros(t) ==
    IF Len(t) > 1 /\ t[Len(t)] = "0" THEN StripZeros(SubSeq(t, 1, Len(t) - 1)) ELSE t

\* str(value) of an element of class_data: the text of a '<Uw' array, the
\* shortest numeral with a point of a float array
StrOfCell(c) ==
    CASE c.k = "str" -> c.s
      [] c.k = "nan" -> <<"n", "a", "n">>
      [] OTHER -> (IF c.v < 0 THEN <<"-">> ELSE <<>>)
                  \o StrOfNat(Abs(c.v) \div Scale) \o <<".">>
                  \o StripZeros(PadLeft(StrOfNat(Abs(c.v) % Scale), FracDigits))

\* "Rand index: " + "{:.2f}".format(score), line 888
MetricText(m) ==
    LET n == (200 * m.agree + m.pairs) \div (2 * m.pairs)
    IN  <<"Rand index: ">> \o StrOfNat(n \div 100) \o <<".">>
        \o PadLeft(StrOfNat(n % 100), 2)

\* bool(self.num_clusters_window<n>) and bool(self.clustering_metric_window<n>)
NumClustersTruthy(w) == w.num_clusters # Nothing /\ w.num_clusters[1] # 0
MetricTruthy(w) == w.clustering_metric # Nothing

\* the row i of the file with the class of the data point, when there is a
\* metric, and its label
RowSaved(w, rows, i) ==
    WithoutZeros(rows[i])
    \o (IF MetricTruthy(w) THEN <<",">> \o StrOfCell(w.class_data[1][i]) ELSE <<>>)
    \o <<",">> \o StrOfInt(w.clustering_data_labels[i])

\* lines after the data with an empty line where the code writes none: what
\* C25 tells from the code's
LinesAfterWithBlanks(w) ==
    << <<"Data clustering algorithm: ", w.data_clustering_algorithm>> >>
    \o (IF NumClustersTruthy(w)
        THEN << <<"Number of clusters: ">> \o StrOfInt(w.num_clusters[1]) >> ELSE << <<>> >>)
    \o (IF MetricTruthy(w) THEN << MetricText(w.clustering_metric[1]) >> ELSE << <<>> >>)

\* the lines after the data
LinesAfter(w) ==
    << <<"Data clustering algorithm: ", w.data_clustering_algorithm>> >>
    \o (IF NumClustersTruthy(w)
        THEN << <<"Number of clusters: ">> \o StrOfInt(w.num_clusters[1]) >> ELSE <<>>)
    \o (IF MetricTruthy(w) THEN << MetricText(w.clustering_metric[1]) >> ELSE <<>>)

\* a savetxt that adds its lines to those the file has: what C26 tells from
\* the code's
SavetxtAppended(s, slot, target) ==
    IF s.heap[s.windows[slot].attribute_data].dtype # "float"
    THEN Fail(s, "TypeError: savetxt")
    ELSE [s EXCEPT !.files_saved[target] =
             TextContent(@.lines \o Savetxt(s.heap[s.windows[slot].attribute_data]))]

\* np.savetxt(filename_save, self.attribute_data_window<n>, ...): the file is
\* opened for writing, which empties it
SavetxtWritten(s, slot, target) ==
    IF s.heap[s.windows[slot].attribute_data].dtype # "float"
    THEN Fail(s, "TypeError: savetxt")
    ELSE [s EXCEPT !.files_saved[target] =
             TextContent(Savetxt(s.heap[s.windows[slot].attribute_data]))]

\* the rows are read back from the file, and the file is written again
Rewritten(s, slot, target) ==
    IF ~Running(s) THEN s
    ELSE IF Len(s.windows[slot].clustering_data_labels) < Len(s.files_saved[target].lines)
            \/ (MetricTruthy(s.windows[slot])
                /\ Len(s.windows[slot].class_data[1]) < Len(s.files_saved[target].lines))
    THEN Fail(s, "IndexError: index out of bounds")
    ELSE [s EXCEPT !.files_saved[target] =
             TextContent([i \in 1..Len(@.lines) |-> RowSaved(s.windows[slot], @.lines, i)]
                         \o LinesAfter(s.windows[slot]))]

\* the Save button of the slot's display was clicked and the dialog has
\* returned the name and the type of the filter
save_data_clustering(s, slot, name, type) ==
    IF ~Running(s) \/ name = "" THEN s
    ELSE IF type \in {"txt", "csv"}
    THEN Rewritten(SavetxtWritten(s, slot, <<name, type>>), slot, <<name, type>>)
    ELSE IF type \in {"jpg", "png"}
    THEN [s EXCEPT !.files_saved[<<name, type>>] = ImageContent]
    ELSE s

(***************************************************************************)
(* The state of the session: the attributes of the interface object and    *)
(* the states of its widgets, under the names of the source.               *)
(*   side_panel        the removable widgets in side_panel_layout          *)
(*   policy_index      data_non_numbers_option_combo_box.currentIndex()    *)
(*   algorithm         clustering_algorithm_combo_box.currentText()        *)
(*   num_clusters_text num_clusters_input.text()                           *)
(*   checked_button    the checked button of the 2D/3D group, or ""        *)
(*   button3D_enabled, window1_button, window2_button    isEnabled()       *)
(*   features_index    features_non_numbers_combo_box.currentIndex()       *)
(*   values_index, item_text   index and item texts of the value combos    *)
(*   input_text        feature_values_non_numbers_input.text()             *)
(*   error_label       which message file_data_error_label shows           *)
(*   windows           the attributes <name>_window1 and <name>_window2    *)
(*   backend           the last calls made to the library                  *)
(*   files_saved       the files that save_data_clustering has written     *)
(*   failure           the uncaught exception that ended the session       *)
(*   displays          how often display_data_clustering has run           *)
(*   events            how many events of the user there have been         *)
(***************************************************************************)
VARIABLES
    side_panel,
    policy_index,
    algorithm,
    num_clusters_text,
    checked_button,
    button3D_enabled,
    window1_button,
    window2_button,
    features_index,
    values_index,
    item_text,
    input_text,
    error_label,
    data_with_classes_checked,
    display_dimension,
    data_imported,
    file_data_error,
    data_with_classes,
    data_non_numbers,
    feature_values_non_numbers_entered,
    feature_values_non_numbers_entered_not_applicable,
    clustering_algorithm_selected,
    num_clusters_entered,
    num_clusters_not_applicable,
    dimension_selected,
    display_window1,
    display_window2,
    filename,
    file_data,
    attribute_data_all,
    attribute_data,
    class_data,
    non_number_values,
    heap,
    windows,
    backend,
    files_saved,
    failure,
    displays,
    events

vars ==
    <<side_panel,
      policy_index,
      algorithm,
      num_clusters_text,
      checked_button,
      button3D_enabled,
      window1_button,
      window2_button,
      features_index,
      values_index,
      item_text,
      input_text,
      error_label,
      data_with_classes_checked,
      display_dimension,
      data_imported,
      file_data_error,
      data_with_classes,
      data_non_numbers,
      feature_values_non_numbers_entered,
      feature_values_non_numbers_entered_not_applicable,
      clustering_algorithm_selected,
      num_clusters_entered,
      num_clusters_not_applicable,
      dimension_selected,
      display_window1,
      display_window2,
      filename,
      file_data,
      attribute_data_all,
      attribute_data,
      class_data,
      non_number_values,
      heap,
      windows,
      backend,
      files_saved,
      failure,
      displays,
      events>>

\* the state as one record
Cur ==
    [side_panel |-> side_panel,
     policy_index |-> policy_index,
     algorithm |-> algorithm,
     num_clusters_text |-> num_clusters_text,
     checked_button |-> checked_button,
     button3D_enabled |-> button3D_enabled,
     window1_button |-> window1_button,
     window2_button |-> window2_button,
     features_index |-> features_index,
     values_index |-> values_index,
     item_text |-> item_text,
     input_text |-> input_text,
     error_label |-> error_label,
     data_with_classes_checked |-> data_with_classes_checked,
     display_dimension |-> display_dimension,
     data_imported |-> data_imported,
     file_data_error |-> file_data_error,
     data_with_classes |-> data_with_classes,
     data_non_numbers |-> data_non_numbers,
     feature_values_non_numbers_entered |-> feature_values_non_numbers_entered,
     feature_values_non_numbers_entered_not_applicable |-> feature_values_non_numbers_entered_not_applicable,
     clustering_algorithm_selected |-> clustering_algorithm_selected,
     num_clusters_entered |-> num_clusters_entered,
     num_clusters_not_applicable |-> num_clusters_not_applicable,
     dimension_selected |-> dimension_selected,
     display_window1 |-> display_window1,
     display_window2 |-> display_window2,
     filename |-> filename,
     file_data |-> file_data,
     attribute_data_all |-> attribute_data_all,
     attribute_data |-> attribute_data,
     class_data |-> class_data,
     non_number_values |-> non_number_values,
     heap |-> heap,
     windows |-> windows,
     backend |-> backend,
     files_saved |-> files_saved,
     failure |-> failure]

(***************************************************************************)
(* Array objects have no names of their own: after each handler the        *)
(* objects are numbered in the order attribute_data_all, attribute_data,   *)
(* window 1, window 2, and the objects that nothing refers to are dropped. *)
(***************************************************************************)
RefOrder(s) ==
    <<s.attribute_data_all, s.attribute_data,
      s.windows[1].attribute_data, s.windows[2].attribute_data>>

FirstAt(q, r) == CHOOSE j \in 1..Len(q) : q[j] = r /\ \A k \in 1..(j - 1) : q[k] # r

Renumbered(s, r) ==
    IF r = 0 THEN 0
    ELSE 1 + Cardinality({RefOrder(s)[k] : k \in 1..(FirstAt(RefOrder(s), r) - 1)} \ {0})

Collected(s) ==
    LET live == {RefOrder(s)[j] : j \in 1..4} \ {0}
    IN  [s EXCEPT
           !.heap = [i \in Ids |->
                        IF \E r \in live : Renumbered(s, r) = i
                        THEN s.heap[CHOOSE r \in live : Renumbered(s, r) = i]
                        ELSE NoArray],
           !.attribute_data_all = Renumbered(s, s.attribute_data_all),
           !.attribute_data = Renumbered(s, s.attribute_data),
           !.windows = [w \in Slots |->
                           [s.windows[w] EXCEPT !.attribute_data = Renumbered(s, @)]]]

\* the next state is what the handler leaves
Becomes(t) ==
    \E s \in {Collected(t)} :
    /\ side_panel' = s.side_panel
    /\ policy_index' = s.policy_index
    /\ algorithm' = s.algorithm
    /\ num_clusters_text' = s.num_clusters_text
    /\ checked_button' = s.checked_button
    /\ button3D_enabled' = s.button3D_enabled
    /\ window1_button' = s.window1_button
    /\ window2_button' = s.window2_button
    /\ features_index' = s.features_index
    /\ values_index' = s.values_index
    /\ item_text' = s.item_text
    /\ input_text' = s.input_text
    /\ error_label' = s.error_label
    /\ data_with_classes_checked' = s.data_with_classes_checked
    /\ display_dimension' = s.display_dimension
    /\ data_imported' = s.data_imported
    /\ file_data_error' = s.file_data_error
    /\ data_with_classes' = s.data_with_classes
    /\ data_non_numbers' = s.data_non_numbers
    /\ feature_values_non_numbers_entered' = s.feature_values_non_numbers_entered
    /\ feature_values_non_numbers_entered_not_applicable' = s.feature_values_non_numbers_entered_not_applicable
    /\ clustering_algorithm_selected' = s.clustering_algorithm_selected
    /\ num_clusters_entered' = s.num_clusters_entered
    /\ num_clusters_not_applicable' = s.num_clusters_not_applicable
    /\ dimension_selected' = s.dimension_selected
    /\ display_window1' = s.display_window1
    /\ display_window2' = s.display_window2
    /\ filename' = s.filename
    /\ file_data' = s.file_data
    /\ attribute_data_all' = s.attribute_data_all
    /\ attribute_data' = s.attribute_data
    /\ class_data' = s.class_data
    /\ non_number_values' = s.non_number_values
    /\ heap' = s.heap
    /\ windows' = s.windows
    /\ backend' = s.backend
    /\ files_saved' = s.files_saved
    /\ failure' = s.failure

(***************************************************************************)
(* The state after __init__, lines 27-186.                                 *)
(***************************************************************************)
Init ==
    /\ side_panel = {}
    /\ policy_index = 0
    /\ algorithm = ""
    /\ num_clusters_text = <<>>
    /\ checked_button = ""
    /\ button3D_enabled = TRUE
    /\ window1_button = FALSE
    /\ window2_button = FALSE
    /\ features_index = 0
    /\ values_index = <<>>
    /\ item_text = <<>>
    /\ input_text = <<>>
    /\ error_label = ""
    /\ data_with_classes_checked = FALSE
    /\ display_dimension = ""
    /\ data_imported = FALSE
    /\ file_data_error = FALSE
    /\ data_with_classes = FALSE
    /\ data_non_numbers = FALSE
    /\ feature_values_non_numbers_entered = FALSE
    /\ feature_values_non_numbers_entered_not_applicable = FALSE
    /\ clustering_algorithm_selected = FALSE
    /\ num_clusters_entered = FALSE
    /\ num_clusters_not_applicable = FALSE
    /\ dimension_selected = FALSE
    /\ display_window1 = FALSE
    /\ display_window2 = FALSE
    /\ filename = ""
    /\ file_data = [kind |-> "unset", a |-> NoArray]
    /\ attribute_data_all = 0
    /\ attribute_data = 0
    /\ class_data = <<>>
    /\ non_number_values = <<>>
    /\ heap = [i \in Ids |-> NoArray]
    /\ windows = [w \in Slots |-> NoSnapshot]
    /\ backend = [pca |-> Nothing, fit |-> NoCall]
    /\ files_saved = [target \in SaveTargets |-> NoContent]
    /\ failure = "none"
    /\ displays = 0
    /\ events = 0

(***************************************************************************)
(* The events of the user.  A widget takes an event when it is shown and   *)
(* enabled; a handler runs when the event changes the widget's state.      *)
(* After an uncaught exception there are no more events.                   *)
(***************************************************************************)
\* an event of the user whose handler leaves the state t
Event(t) ==
    /\ Running(Cur)
    /\ events < MaxEvents
    /\ Becomes(t)
    /\ events' = events + 1

\* Load Data is clicked and the dialog is accepted with the file f
LoadData(f) ==
    /\ Event(load_data(Cur, f))
    /\ UNCHANGED displays

\* Load Data is clicked and the dialog is cancelled
LoadDataCancelled ==
    /\ Event(load_data_cancelled(Cur))
    /\ UNCHANGED displays

\* the check box of the class column is clicked
DataWithClassesToggled ==
    /\ Event(data_with_classes_option_changed(
                   [Cur EXCEPT !.data_with_classes_checked = ~@]))
    /\ UNCHANGED displays

\* an item of the combo box of the four options is chosen
DataNonNumbersOptionChosen(i) ==
    /\ "Data Non Numbers Options" \in side_panel
    /\ i # policy_index
    /\ Event(data_non_numbers_option_changed([Cur EXCEPT !.policy_index = i]))
    /\ UNCHANGED displays

\* a feature is chosen in the combo box of the features
FeatureChosen(i) ==
    /\ "Data Non Numbers Values Container" \in side_panel
    /\ i \in 0..(Len(non_number_values) - 1)
    /\ i # features_index
    /\ Event(feature_non_numbers_selection_changed([Cur EXCEPT !.features_index = i]))
    /\ UNCHANGED displays

\* a value is chosen in the combo box of the values of the selected feature
FeatureValueChosen(j) ==
    /\ "Data Non Numbers Values Container" \in side_panel
    /\ j \in 0..(Len(non_number_values[features_index + 1]) - 1)
    /\ j # values_index[features_index + 1]
    /\ Event(feature_values_non_numbers_selection_changed(
                   [Cur EXCEPT !.values_index[features_index + 1] = j]))
    /\ UNCHANGED displays

\* the text of the input of the number for the selected value is edited
FeatureValueEdited(text) ==
    /\ "Data Non Numbers Values Container" \in side_panel
    /\ text # input_text
    /\ Event(feature_values_non_numbers_changed([Cur EXCEPT !.input_text = text]))
    /\ UNCHANGED displays

\* an item of the combo box of the algorithms is chosen
ClusteringAlgorithmChosen(a) ==
    /\ a # algorithm
    /\ Event(clustering_algorithm_changed([Cur EXCEPT !.algorithm = a]))
    /\ UNCHANGED displays

\* the text of the input of the number of clusters is edited
NumClustersEdited(text) ==
    /\ "Number of Clusters Input" \in side_panel
    /\ text # num_clusters_text
    /\ Event(num_clusters_changed([Cur EXCEPT !.num_clusters_text = text]))
    /\ UNCHANGED displays

\* one of the buttons 2D and 3D is clicked
RadioButtonClicked(text) ==
    /\ text # checked_button
    /\ text = "3D" => button3D_enabled
    /\ Event(radio_button_selected([Cur EXCEPT !.checked_button = text], text))
    /\ UNCHANGED displays

\* the button of a display slot is clicked
DisplayClicked(slot, offset) ==
    /\ IF slot = 1 THEN window1_button ELSE window2_button
    /\ displays < MaxDisplays
    /\ Event(display_data_clustering(Cur, slot, offset))
    /\ displays' = displays + 1

\* the Close button of an open display is clicked
CloseClicked(slot) ==
    /\ IF slot = 1 THEN display_window1 ELSE display_window2
    /\ Event(close_display_window(Cur, slot))
    /\ UNCHANGED displays

\* the Save button of an open display is clicked, and the dialog returns
SaveClicked(slot, name, type) ==
    /\ IF slot = 1 THEN display_window1 ELSE display_window2
    /\ Event(save_data_clustering(Cur, slot, name, type))
    /\ UNCHANGED displays

(***************************************************************************)
(* What the user can enter.                                                *)
(***************************************************************************)
\* the texts for the number of clusters: QIntValidator(0, 999) lets the
\* user enter digits, and a sign on its way to a number
NumClustersTexts ==
    {<<>>, <<"+">>, <<"0", "0">>} \cup {StrOfNat(n) : n \in 0..MaxCount}

\* the texts for the number of a value: QDoubleValidator lets the user
\* enter a numeral, and the beginnings of one
FeatureValueTexts ==
    {<<>>, <<"1">>, <<"1", "2">>, <<"-">>, <<"1", "e">>}

PolicyIndexes == 0..4

\* the offsets the library may choose for its labels
Offsets == {0, 1}

NextOn(files, algorithms, counts, texts, offsets) ==
    \/ \E f \in files : LoadData(f)
    \/ LoadDataCancelled
    \/ DataWithClassesToggled
    \/ \E i \in PolicyIndexes : DataNonNumbersOptionChosen(i)
    \/ \E i \in 0..2 : FeatureChosen(i)
    \/ \E j \in 0..2 : FeatureValueChosen(j)
    \/ \E text \in texts : FeatureValueEdited(text)
    \/ \E a \in algorithms \cup {""} : ClusteringAlgorithmChosen(a)
    \/ \E text \in counts : NumClustersEdited(text)
    \/ \E text \in {"2D", "3D"} : RadioButtonClicked(text)
    \/ \E slot \in Slots : \E offset \in offsets : DisplayClicked(slot, offset)
    \/ \E slot \in Slots : CloseClicked(slot)

\* the sessions on a numeric table, on tables with non-numeric values and on
\* a file that load_data rejects
Next ==
    NextOn({FileNumeric, FileRed, FileMixed, FileRagged}, {"K-Means", "DBSCAN"},
           {<<>>, <<"0">>, <<"2">>}, {<<>>, <<"1">>}, {0})

Spec == Init /\ [][Next]_vars

\* the sessions with every text for the number of a value
NextMapping ==
    NextOn({FileRed, FileMixed}, {"K-Means", "DBSCAN"},
           {<<"2">>}, FeatureValueTexts, {0})

SpecMapping == Init /\ [][NextMapping]_vars

\* the sessions with every text for the number of clusters
NextCounts ==
    NextOn({FileNumeric, FileMixed}, {"K-Means", "DBSCAN"},
           NumClustersTexts, {<<"1">>}, {0})

SpecCounts == Init /\ [][NextCounts]_vars

\* the sessions with every labeling of the library
NextDisplay ==
    NextOn({FileRed, FileMixed}, {"K-Means", "DBSCAN"},
           {<<"2">>}, {<<>>, <<"1">>}, Offsets)

SpecDisplay == Init /\ [][NextDisplay]_vars

\* the sessions with an algorithm of each kind of the dispatch: one that
\* takes the number entered, one that takes none, and Spectral
NextDispatch ==
    NextOn({FileMixed}, {"K-Means", "Spectral", "DBSCAN"},
           {<<>>, <<"1">>, <<"2">>}, {<<"1">>}, {0})

SpecDispatch == Init /\ [][NextDispatch]_vars

\* the sessions with Spectral on tables of 8 rows and of fewer
NextSpectral ==
    NextOn({FileEight, FileMixed}, {"Spectral", "K-Means"},
           {<<"2">>}, {<<"1">>}, {0})

SpecSpectral == Init /\ [][NextSpectral]_vars

\* the sessions in which a file is chosen after another: a numeric table, a
\* table with non-numeric values and a file that load_data rejects
NextReload ==
    NextOn({FileNumeric, FileMixed, FileRagged}, {"K-Means"},
           {<<"2">>}, {<<"1">>}, {0})

SpecReload == Init /\ [][NextReload]_vars

\* the sessions on a table with classes of which the exclusions leave
\* enough to cluster, with the numbers of clusters 2 and 4
NextClasses ==
    NextOn({FileClasses, FileMixed}, {"K-Means", "DBSCAN"},
           {<<"2">>, <<"4">>}, {<<"1">>}, {0})

SpecClasses == Init /\ [][NextClasses]_vars

\* the sessions with the files that load_data rejects
NextLoad ==
    NextOn({FileNumeric, FileMixed, FileRagged, FileEmpty, FileOneRow, FileOneColumn,
            FileZeros, FileOneRowZeros},
           {"K-Means"}, {<<"2">>}, {<<"1">>}, {0})

SpecLoad == Init /\ [][NextLoad]_vars

\* the sessions on tables with repeated, blank and signed cells
NextCatalog ==
    NextOn({FileSigns, FileRed}, {"K-Means"}, {<<"2">>}, {<<>>, <<"1">>}, {0})

SpecCatalog == Init /\ [][NextCatalog]_vars

\* the sessions on tables of two and of three features, and of two rows
NextDimension ==
    NextOn({FileNumeric, FileMixed, FileTwoRows}, {"K-Means"}, {<<"2">>}, {<<"1">>}, {0})

SpecDimension == Init /\ [][NextDimension]_vars

\* the sessions in which the displays are saved
NextExport ==
    \/ NextOn({FileFractions, FileMixed}, {"K-Means", "DBSCAN"},
              {<<"2">>}, {<<"1">>}, {0})
    \/ \E slot \in Slots : \E name \in SaveNames : \E type \in SaveTypes :
           SaveClicked(slot, name, type)

SpecExport == Init /\ [][NextExport]_vars

(***************************************************************************)
(* The properties.                                                         *)
(***************************************************************************)
\* C1: after every handler that returns, the Display 1 trigger is enabled
\* if and only if the readiness predicate holds of the current flags: the
\* data is imported without an error, it has no non-numeric values or the
\* numbers for them are entered or the option makes them moot, an algorithm
\* is selected with its number of clusters entered or not applicable, and a
\* dimension is selected.  The trigger is a function of the flags alone.
C1_GateIsReadiness ==
    Running(Cur) =>
        (window1_button <=>
            /\ data_imported
            /\ ~file_data_error
            /\ (~data_non_numbers \/ feature_values_non_numbers_entered
                    \/ feature_values_non_numbers_entered_not_applicable)
            /\ clustering_algorithm_selected
            /\ (num_clusters_entered \/ num_clusters_not_applicable)
            /\ dimension_selected)

\* C1 happens: the trigger is enabled for a table with non-numeric values
\* whose numbers are entered, after it was disabled while they were not
C1_Witness ==
    /\ Running(Cur)
    /\ window1_button
    /\ data_non_numbers
    /\ feature_values_non_numbers_entered
    /\ policy_index = 2

\* C2: in every state in which the readiness predicate is false, the
\* Display 1 trigger and the Display 2 trigger are both disabled, whatever
\* the event that led to the state
C2_NotReadyDisablesBoth ==
    ~ReadyFlags(Cur) => (~window1_button /\ ~window2_button)

\* C2 happens: a display is shown, so that the Display 2 trigger was enabled,
\* and the readiness predicate is false again
C2_Witness ==
    /\ Running(Cur)
    /\ display_window1
    /\ ~ReadyFlags(Cur)
    /\ ~window2_button

\* C3: whenever a display trigger is enabled, every cell of attribute_data,
\* the matrix that display_data_clustering hands to the library, is a
\* number: none is nan, a text, or a catalogued value without a number
C3_EnabledMatrixIsNumeric ==
    (Running(Cur) /\ (window1_button \/ window2_button)) =>
        /\ attribute_data # 0
        /\ heap[attribute_data].dtype = "float"
        /\ \A r \in 1..heap[attribute_data].nrows :
               \A c \in 1..heap[attribute_data].ncols :
                   heap[attribute_data].cells[r][c].k = "num"

\* C3 happens: a trigger is enabled under each way in which the matrix is
\* built from a table with non-numeric values; here the numbers entered
C3_Witness ==
    /\ Running(Cur)
    /\ window1_button
    /\ data_non_numbers
    /\ policy_index = 2
    /\ \E f \in 1..Len(non_number_values) : \E i \in 1..Len(non_number_values[f]) :
           Len(non_number_values[f][i].rows) > 1

\* the catalog entries, as pairs of a feature and a value counted from 1
EntryIndexes ==
    {fv \in (1..3) \X (1..3) :
        fv[1] <= Len(non_number_values) /\ fv[2] <= Len(non_number_values[fv[1]])}

\* the cell of attribute_data in a row of the entry fv, the row counted from 0
EntryCell(fv, row) ==
    heap[attribute_data].cells[row + 1][non_number_values[fv[1]][fv[2]].col + 1]

EntryRows(fv) ==
    {non_number_values[fv[1]][fv[2]].rows[j] :
        j \in 1..Len(non_number_values[fv[1]][fv[2]].rows)}

\* the cell holds the number that the text writes
HoldsNumber(cell, text) ==
    \/ cell.k = "num" /\ cell.v = ParseFloat(text).v
    \/ cell.k = "str" /\ ParseFloat(cell.s).ok /\ ParseFloat(cell.s).v = ParseFloat(text).v

\* the cell is unset: nan as a number, None as a text
IsUnset(cell, width) ==
    \/ cell.k = "nan"
    \/ cell.k = "str" /\ cell.s = Truncate(<<"N", "o", "n", "e">>, width)

\* C4: under the option of assigning numbers, after every event, for every
\* catalog entry and every row of it, the cell of the matrix at the row and
\* the entry's column holds exactly the number written in the entry's
\* mapped value when there is one, and is unset when there is none
C4_CellsHoldMappedValues ==
    (Running(Cur) /\ policy_index = 2) =>
        \A fv \in EntryIndexes : \A row \in EntryRows(fv) :
            LET mapped == non_number_values[fv[1]][fv[2]].mapped
            IN  IF Truthy(mapped)
                THEN ParseFloat(mapped).ok => HoldsNumber(EntryCell(fv, row), mapped)
                ELSE IsUnset(EntryCell(fv, row), heap[attribute_data].width)

\* C5: in every state a mapped value of a catalog entry that is not null or
\* empty is the text of a number; an input that is no complete numeral is
\* never stored as a mapped value, and never makes a handler fail
C5_MappedValuesAreNumerals ==
    /\ \A fv \in EntryIndexes :
           LET mapped == non_number_values[fv[1]][fv[2]].mapped
           IN  Truthy(mapped) => ParseFloat(mapped).ok
    /\ failure # "ValueError: could not convert string to float"

\* the table of C6: "red" in rows 0 and 2 of one column, the option of
\* assigning numbers selected
RedTable ==
    /\ Running(Cur)
    /\ policy_index = 2
    /\ filename = "red"
    /\ ~data_with_classes

RedMapped == non_number_values[1][1].mapped

\* C6: under the option of assigning numbers, feature_values_non_numbers_entered
\* is true after every event if and only if every entry of every column of
\* the catalog has a mapped value.  For the table with "red" in rows 0 and 2
\* of one column it is false, and readiness is false, before any assignment;
\* after "red" is given "1" it is true, readiness is what the other
\* conditions make it, and the cells of rows 0 and 2 in the column are 1.0
C6_EnteredIffAllAssigned ==
    /\ (Running(Cur) /\ policy_index = 2) =>
           (feature_values_non_numbers_entered <=>
                \A fv \in EntryIndexes : Truthy(non_number_values[fv[1]][fv[2]].mapped))
    /\ (RedTable /\ RedMapped = None) =>
           /\ ~feature_values_non_numbers_entered
           /\ ~ReadyFlags(Cur)
           /\ ~window1_button
    /\ (RedTable /\ RedMapped = <<"1">>) =>
           /\ feature_values_non_numbers_entered
           /\ ReadyFlags(Cur) <=>
                  /\ clustering_algorithm_selected
                  /\ (num_clusters_entered \/ num_clusters_not_applicable)
                  /\ dimension_selected
           /\ heap[attribute_data].cells[1][2] = NumCell(Scale)
           /\ heap[attribute_data].cells[3][2] = NumCell(Scale)

\* C6 happens: "red" has been given "1" and the trigger is enabled
C6_Witness ==
    /\ RedTable
    /\ RedMapped = <<"1">>
    /\ feature_values_non_numbers_entered
    /\ window1_button
    /\ heap[attribute_data].cells[1][2] = NumCell(Scale)

\* what a display slot keeps: the matrix, the labels, the name of the
\* algorithm, the number of clusters, the classes and the metric
SlotView(w) ==
    [matrix |-> IF windows[w].attribute_data = 0 THEN NoArray
                ELSE heap[windows[w].attribute_data],
     labels |-> windows[w].clustering_data_labels,
     algorithm |-> windows[w].data_clustering_algorithm,
     num_clusters |-> windows[w].num_clusters,
     class_data |-> windows[w].class_data,
     metric |-> windows[w].clustering_metric]

\* C7: what a slot keeps is unchanged by every event that is not a display:
\* by the edits of the numbers, the changes of the option, the class option
\* and the loads
C7_SnapshotKept ==
    [][displays' = displays => \A w \in Slots : SlotView(w)' = SlotView(w)]_vars

\* C8: a display for one slot leaves what the other slot keeps unchanged, and
\* no change reaches the matrices of both slots: an event changes what at
\* most one slot keeps
C8_SlotsApart ==
    [][SlotView(1)' = SlotView(1) \/ SlotView(2)' = SlotView(2)]_vars

\* C9: num_clusters_entered is true only if the text of the input is an
\* integer k with 1 <= k <= the number of rows of the loaded table; it is
\* false for the empty text, for zero in any spelling and for k above the
\* number of rows
C9_CountEnteredIsValid ==
    (Running(Cur) /\ num_clusters_entered) =>
        /\ IntTextOk(num_clusters_text)
        /\ IntText(num_clusters_text) >= 1
        /\ attribute_data_all # 0
        /\ IntText(num_clusters_text) <= heap[attribute_data_all].nrows

\* C10: a display trigger is never enabled with an algorithm that takes a
\* number of clusters while the text of the input is no valid positive
\* number, and such an algorithm is never called with a number below 1
C10_CountAlgorithmsGetCount ==
    /\ (Running(Cur) /\ (window1_button \/ window2_button)
            /\ algorithm \in Algorithms \ clustering_algorithms_no_num_clusters_input) =>
           /\ IntTextOk(num_clusters_text)
           /\ IntText(num_clusters_text) >= 1
    /\ backend.fit.algorithm \in Algorithms \ clustering_algorithms_no_num_clusters_input =>
           /\ backend.fit.n_clusters # Nothing
           /\ backend.fit.n_clusters[1] >= 1

(***************************************************************************)
(* The file that was chosen last, as the user sees it.                     *)
(***************************************************************************)
ChosenFile == FileNamed(filename)

\* every line has as many cells as the first
SameLengthRows(f) == \A r \in 1..Len(f.lines) : Len(f.lines[r]) = Len(f.lines[1])

LoadFailedWith(error) == ~data_imported /\ file_data_error /\ error_label = error

\* C11: a file whose rows all have the same number of cells, with at least
\* two rows and two columns, is loaded (data_imported, and no error unless
\* the class option asks for a third column) whatever its cells hold; a
\* file whose rows differ in length fails with MalformedRow
C11_RectangularFilesLoad ==
    (Running(Cur) /\ filename # "") =>
        /\ (/\ Len(ChosenFile.lines) >= 2
            /\ SameLengthRows(ChosenFile)
            /\ Len(ChosenFile.lines[1]) >= 2)
               => (data_imported /\ (~data_with_classes => ~file_data_error))
        /\ ~SameLengthRows(ChosenFile) => LoadFailedWith("MalformedRow")

\* C12: a file without data fails with EmptyFile, a file with fewer than two
\* rows with InsufficientRows, a file with two or more rows of one column
\* with InsufficientColumns; a load that failed shows one of the load
\* errors, has the error flag set and data_imported false
C12_FailedLoadsAreClassified ==
    (Running(Cur) /\ filename # "") =>
        /\ Len(ChosenFile.lines) = 0 => LoadFailedWith("EmptyFile")
        /\ Len(ChosenFile.lines) = 1 => LoadFailedWith("InsufficientRows")
        /\ (/\ Len(ChosenFile.lines) >= 2
            /\ \A r \in 1..Len(ChosenFile.lines) : Len(ChosenFile.lines[r]) = 1)
               => LoadFailedWith("InsufficientColumns")
        /\ ~data_imported =>
               /\ file_data_error
               /\ error_label \in {"MalformedRow", "EmptyFile", "InsufficientRows",
                                   "InsufficientColumns"}

\* the step is the choice of a file in the dialog of load_data, which leaves
\* the name of the file in filename
FileIsChosen == \E f \in AllFiles : f.name = filename' /\ LoadData(f)

\* C13: once a load error is reported (MalformedRow, EmptyFile,
\* InsufficientRows, InsufficientColumns, MissingClassColumnFeatures), every
\* event other than the choice of a new file leaves the error reported and
\* both display triggers disabled
C13_ErrorStaysUntilLoad ==
    [][(Running(Cur) /\ file_data_error /\ ~FileIsChosen)
          => (file_data_error' /\ ~window1_button' /\ ~window2_button')]_vars

\* C14: whenever the class option is set and the table that is loaded has
\* exactly two columns, MissingClassColumnFeatures is reported, the error
\* flag is set and readiness is false, and the load or the toggle that led
\* there has derived no classes, catalog or matrix; with three or more
\* columns no error is reported
C14_TwoColumnsWithClassesIsAnError ==
    [][(Running(Cur)' /\ data_imported' /\ data_with_classes' /\ filename' # "")
          => /\ Len(FileNamed(filename').lines[1]) = 2
                  => /\ file_data_error'
                     /\ error_label' = "MissingClassColumnFeatures"
                     /\ "File Data Error" \in side_panel'
                     /\ ~ReadyFlags(Cur)'
                     /\ (FileIsChosen \/ DataWithClassesToggled)
                           => UNCHANGED <<class_data, non_number_values,
                                          attribute_data_all, attribute_data, heap>>
             /\ Len(FileNamed(filename').lines[1]) >= 3 => ~file_data_error']_vars

\* C14 happens: the class option was set on a table of two columns
C14_Witness ==
    /\ Running(Cur)
    /\ data_imported
    /\ data_with_classes
    /\ filename = "numeric"
    /\ attribute_data_all # 0
    /\ error_label = "MissingClassColumnFeatures"

(***************************************************************************)
(* The catalog against the file it was built from.                         *)
(***************************************************************************)
\* the table of the chosen file is processed
TableProcessed ==
    Running(Cur) /\ filename # "" /\ data_imported /\ ~file_data_error

\* the text of the file at a row and a column, both counted from 0
FileCell(row, col) == ChosenFile.lines[row + 1][col + 1]

FileRows == 0..(Len(ChosenFile.lines) - 1)

\* the columns of the features: the last column holds the classes when the
\* class option is set
FeatureColumns ==
    0..(Len(ChosenFile.lines[1]) - 1 - (IF data_with_classes THEN 1 ELSE 0))

\* how often the row is in the row list
TimesIn(rows, row) == Cardinality({k \in 1..Len(rows) : rows[k] = row})

\* C15: within each column of the catalog no two entries have the same raw
\* value, an entry's row list has every row of the column whose cell reads
\* as the raw value, no row twice, and the row lists of two entries of a
\* column share no row
C15_CatalogIsDeduplicated ==
    TableProcessed =>
        /\ \A f, g \in 1..Len(non_number_values) :
               f # g => non_number_values[f][1].col # non_number_values[g][1].col
        /\ \A f \in 1..Len(non_number_values) :
               LET es == non_number_values[f]
               IN  /\ \A i \in 1..Len(es) : es[i].col = es[1].col
                   /\ \A i, j \in 1..Len(es) : i # j => es[i].raw # es[j].raw
                   /\ \A i \in 1..Len(es) : \A row \in FileRows :
                          /\ TimesIn(es[i].rows, row) <= 1
                          /\ FileCell(row, es[i].col) = es[i].raw
                                => TimesIn(es[i].rows, row) = 1
                   /\ \A i, j \in 1..Len(es) : \A row \in FileRows :
                          i # j => ~(TimesIn(es[i].rows, row) = 1
                                       /\ TimesIn(es[j].rows, row) = 1)

\* C15 happens: a column of the catalog has two entries, one of them for a
\* value that two rows hold
C15_Witness ==
    /\ TableProcessed
    /\ \E f \in 1..Len(non_number_values) :
          /\ Len(non_number_values[f]) >= 2
          /\ \E i \in 1..Len(non_number_values[f]) :
                Len(non_number_values[f][i].rows) >= 2

\* digits with at most one point among them
UnsignedNumeral(t) ==
    /\ \E i \in 1..Len(t) : t[i] \in Digits
    /\ \A i \in 1..Len(t) : t[i] \in Digits \cup {"."}
    /\ Cardinality({i \in 1..Len(t) : t[i] = "."}) <= 1

\* blank, or not an unsigned numeral once one leading sign is stripped
ReadsAsNonNumeric(t) ==
    \/ t = <<>>
    \/ ~UnsignedNumeral(IF t[1] \in {"-", "+"} THEN Tail(t) ELSE t)

\* the entries of the catalog that list the cell
EntriesOf(row, col) ==
    {e \in {AllEntries(non_number_values)[j] :
               j \in 1..Len(AllEntries(non_number_values))} :
        e.col = col /\ TimesIn(e.rows, row) >= 1}

\* C16: the catalog lists a cell if and only if it is a cell of a feature
\* column that is blank or does not read as a number once one leading sign
\* is stripped; the blank cells are listed by the entry of the empty raw
\* value; no cell that holds a number is listed
C16_CatalogListsNonNumericCells ==
    TableProcessed =>
        \A row \in FileRows : \A col \in 0..(Len(ChosenFile.lines[1]) - 1) :
            /\ EntriesOf(row, col) # {}
                  <=> (col \in FeatureColumns /\ ReadsAsNonNumeric(FileCell(row, col)))
            /\ FileCell(row, col) = <<>>
                  => \A e \in EntriesOf(row, col) : e.raw = <<>>

\* the step is the choice of an item in the combo box of the four options
OptionIsChosen ==
    \E i \in PolicyIndexes : i = policy_index' /\ DataNonNumbersOptionChosen(i)

NoneAssigned(catalog) ==
    \A f \in 1..Len(catalog) : \A i \in 1..Len(catalog[f]) : catalog[f][i].mapped = None

\* C17: the choice of a file and the toggle of the class option build the
\* catalog anew, so that no entry has a number afterwards, the numbers are
\* not entered and the option of the numbers is not ready; the choice of an
\* option leaves the catalog as it is, and the option of the numbers finds
\* the numbers entered when they all were
C17_CatalogRebuiltByTableNotByOption ==
    [][/\ ((FileIsChosen \/ DataWithClassesToggled) /\ TableProcessed')
            => /\ NoneAssigned(non_number_values')
               /\ ~feature_values_non_numbers_entered'
               /\ (data_non_numbers' /\ policy_index' = 2) => ~ReadyFlags(Cur)'
       /\ (OptionIsChosen /\ Running(Cur)')
            => /\ non_number_values' = non_number_values
               /\ (policy_index' = 2 /\ AllAssigned(non_number_values))
                     => feature_values_non_numbers_entered']_vars

\* C17 happens: a number was entered for a value and another option than
\* the option of the numbers was chosen afterwards
C17_Witness ==
    /\ TableProcessed
    /\ data_non_numbers
    /\ policy_index \in {1, 3, 4}
    /\ ~NoneAssigned(non_number_values)

(***************************************************************************)
(* The matrix an option builds, from the file and the catalog alone.       *)
(***************************************************************************)
\* the features of the file as text, the blank cells empty
FeatureTable ==
    BlankedCells(IF data_with_classes THEN DropLastColumn(GenfromtxtStr(ChosenFile))
                 ELSE GenfromtxtStr(ChosenFile))

MatrixOfOption(index) ==
    CASE index = 1 ->
           AstypeFloat(ZeroFilled(FeatureTable, AllEntries(non_number_values)))
      [] index = 2 ->
           IF AllAssigned(non_number_values)
           THEN AstypeFloat(MappingFilled(FeatureTable, AllEntries(non_number_values)))
           ELSE MappingFilled(FeatureTable, AllEntries(non_number_values))
      [] index = 3 ->
           AstypeFloat(DeleteRows(FeatureTable, CatalogRows(non_number_values)))
      [] index = 4 ->
           AstypeFloat(DeleteColumns(FeatureTable, CatalogColumns(non_number_values)))

\* C18: the matrix that the choice of an option builds is the matrix of
\* that option for the file, the class option and the catalog, whatever
\* options were chosen before it: row exclusion after column exclusion,
\* zero-fill or the option of the numbers builds what row exclusion built
\* at first
C18_MatrixOfOptionHasNoHistory ==
    [][(policy_index' \in 1..4 /\ TableProcessed' /\ data_non_numbers'
           /\ OptionIsChosen)
          => heap'[attribute_data'] = MatrixOfOption(policy_index')]_vars

\* C18 happens: row exclusion is chosen while attribute_data_all holds the
\* zeros that zero-fill wrote into it
C18_Witness ==
    /\ TableProcessed
    /\ data_non_numbers
    /\ policy_index = 3
    /\ heap[attribute_data_all] # FeatureTable
    /\ heap[attribute_data].nrows >= 1

\* the number that the text of a cell of the file reads as
NumberOf(row, col) == NumCell(ParseFloat(FileCell(row, col)).v)

\* the matrix that display_data_clustering hands to the library
Matrix == heap[attribute_data]

\* C19: under zero-fill the matrix has the shape of the features of the
\* table, every catalogued cell is 0 and every other cell is the number of
\* the file, and the condition of the non-numeric values is met at once
C19_ZeroFillIsZeroAndReady ==
    (TableProcessed /\ data_non_numbers /\ policy_index = 1) =>
        /\ Matrix.dtype = "float"
        /\ Matrix.nrows = Cardinality(FileRows)
        /\ Matrix.ncols = Cardinality(FeatureColumns)
        /\ \A row \in FileRows : \A col \in FeatureColumns :
               Matrix.cells[row + 1][col + 1] =
                   IF EntriesOf(row, col) # {} THEN NumCell(0) ELSE NumberOf(row, col)
        /\ feature_values_non_numbers_entered_not_applicable
        /\ "Data Non Numbers Values Container" \notin side_panel

\* C19 happens: zero-fill is chosen for a table with catalogued cells and
\* with numbers other than 0
C19_Witness ==
    /\ TableProcessed
    /\ data_non_numbers
    /\ policy_index = 1
    /\ \E row \in FileRows : \E col \in FeatureColumns :
          /\ EntriesOf(row, col) # {}
          /\ EntriesOf(row, (col + 1) % Cardinality(FeatureColumns)) = {}
          /\ Matrix.cells[row + 1][((col + 1) % Cardinality(FeatureColumns)) + 1] # NumCell(0)

RowIsListed(row) == \E col \in FeatureColumns : EntriesOf(row, col) # {}

ColumnIsListed(col) == \E row \in FileRows : EntriesOf(row, col) # {}

\* the rows and the columns that no entry of the catalog lists, in order
KeptRows == SelectSeq([i \in 1..Cardinality(FileRows) |-> i - 1],
                      LAMBDA row : ~RowIsListed(row))

KeptColumns == SelectSeq([i \in 1..Cardinality(FeatureColumns) |-> i - 1],
                         LAMBDA col : ~ColumnIsListed(col))

\* C20: under row exclusion the matrix is the features of the table without
\* the rows that an entry of the catalog lists, under column exclusion
\* without the columns that have an entry, the others kept in order
C20_ExclusionDropsListedOnly ==
    (TableProcessed /\ data_non_numbers) =>
        /\ policy_index = 3 =>
              /\ Matrix.nrows = Len(KeptRows)
              /\ Matrix.ncols = Cardinality(FeatureColumns)
              /\ \A k \in 1..Len(KeptRows) : \A col \in FeatureColumns :
                     Matrix.cells[k][col + 1] = NumberOf(KeptRows[k], col)
        /\ policy_index = 4 =>
              /\ Matrix.nrows = Cardinality(FileRows)
              /\ Matrix.ncols = Len(KeptColumns)
              /\ \A row \in FileRows : \A k \in 1..Len(KeptColumns) :
                     Matrix.cells[row + 1][k] = NumberOf(row, KeptColumns[k])

\* C20 happens: an exclusion has dropped some rows or columns and kept
\* others
C20_Witness ==
    /\ TableProcessed
    /\ data_non_numbers
    /\ \/ policy_index = 3 /\ Len(KeptRows) \in 1..(Cardinality(FileRows) - 1)
       \/ policy_index = 4 /\ Len(KeptColumns) \in 1..(Cardinality(FeatureColumns) - 1)
    /\ Matrix.nrows >= 1
    /\ Matrix.ncols >= 1


(***************************************************************************)
(* The matrix that exclusion leaves, and the 3D option.                    *)
(***************************************************************************)
\* a display trigger is enabled
TriggerEnabled == window1_button \/ window2_button

\* the option of the non-numeric values that is in force
UnderPolicy(index) ==
    /\ TableProcessed
    /\ data_non_numbers
    /\ policy_index = index
    /\ attribute_data # 0

\* C21: whenever a display trigger is enabled under the row-exclusion
\* policy the feature matrix has at least 2 rows, and whenever one is
\* enabled under the column-exclusion policy it has at least 2 columns.
C21_ExclusionLeavesTwo ==
    /\ (UnderPolicy(3) /\ TriggerEnabled) => Matrix.nrows >= 2
    /\ (UnderPolicy(4) /\ TriggerEnabled) => Matrix.ncols >= 2


\* the number of features of the loaded table: its columns, less the column
\* of the classes
FeatureCount == Cardinality(FeatureColumns)

\* C22: of a processed table the 3D option is selectable exactly when the
\* table has at least 3 features, and 3D is not the selected dimensionality
\* of a table with fewer than 3 features.
C22_ThreeDIffThreeFeatures ==
    TableProcessed =>
        /\ button3D_enabled <=> FeatureCount >= 3
        /\ (checked_button = "3D" \/ (dimension_selected /\ display_dimension = "3D"))
               => FeatureCount >= 3


(***************************************************************************)
(* The saved text against the display that was saved.                      *)
(***************************************************************************)
\* text.split(',')
RECURSIVE SplitCommas(_)
SplitCommas(t) ==
    LET at == {i \in 1..Len(t) : t[i] = ","}
    IN  IF at = {} THEN <<t>>
        ELSE LET i == CHOOSE j \in at : \A k \in at : j <= k
             IN  <<SubSeq(t, 1, i - 1)>> \o SplitCommas(SubSeq(t, i + 1, Len(t)))

\* the text denotes the value of the cell
Denotes(field, cell) ==
    CASE cell.k = "nan" -> field = <<"n", "a", "n">>
      [] cell.k = "str" -> field = cell.s
      [] OTHER -> ParseFloat(field).ok /\ ParseFloat(field).v = cell.v

\* no zero at the end of a fraction, and no point at the end
WithoutTrailingZeros(field) ==
    (\E i \in 1..Len(field) : field[i] = ".") => field[Len(field)] \notin {"0", "."}

\* the step is a click on Save of the slot's display, with the dialog
\* returning the target: the handler leaves everything but the files as it
\* is
SaveTried(slot, target) ==
    /\ IF slot = 1 THEN display_window1 ELSE display_window2
    /\ Running(Cur)
    /\ events' = events + 1
    /\ UNCHANGED <<side_panel, policy_index, algorithm, num_clusters_text, checked_button,
                   button3D_enabled, window1_button, window2_button, features_index,
                   values_index, item_text, input_text, error_label,
                   data_with_classes_checked, display_dimension, data_imported,
                   file_data_error, data_with_classes, data_non_numbers,
                   feature_values_non_numbers_entered,
                   feature_values_non_numbers_entered_not_applicable,
                   clustering_algorithm_selected, num_clusters_entered,
                   num_clusters_not_applicable, dimension_selected, display_window1,
                   display_window2, filename, file_data, attribute_data_all,
                   attribute_data, class_data, non_number_values, heap, windows,
                   backend, displays>>
    /\ \E saved \in {save_data_clustering(Cur, slot, target[1], target[2])} :
          /\ files_saved' = saved.files_saved
          /\ failure' = saved.failure

\* the step is a save of the slot's display as text into the target
SavedAsText(slot, target) ==
    /\ target[2] \in {"txt", "csv"}
    /\ failure' = "none"
    /\ files_saved'[target].kind = "text"
    /\ SaveTried(slot, target)

\* the matrix of the slot's display
SlotMatrix(slot) == heap[windows[slot].attribute_data]

\* the data rows of the saved lines have the values of the matrix
SavedValuesDenote(slot, lines) ==
    \A r \in 1..SlotMatrix(slot).nrows :
        \E fields \in {SplitCommas(lines[r])} :
            \A c \in 1..SlotMatrix(slot).ncols :
                /\ Denotes(fields[c], SlotMatrix(slot).cells[r][c])
                /\ WithoutTrailingZeros(fields[c])

\* C23: in a file saved as text every value of every column of every data
\* row denotes the number of the matrix, written without the zeros at the
\* end of its fraction and without a point that has no fraction.
C23_SavedValuesDenoteMatrix ==
    [][\A slot \in Slots : \A target \in SaveTargets :
          SavedAsText(slot, target) =>
              \A lines \in {files_saved'[target].lines} :
                  SavedValuesDenote(slot, lines)]_vars

\* the display of the slot has the classes of the data points
WithClasses(slot) == windows[slot].class_data # Nothing

\* the number of fields of a data row saved from the slot
FieldCount(slot) == SlotMatrix(slot).ncols + (IF WithClasses(slot) THEN 1 ELSE 0) + 1

\* the fields after the values: the class of the data point of the row,
\* when there are classes, then its label
RowHasLabels(slot, fields, r) ==
    /\ Len(fields) = FieldCount(slot)
    /\ WithClasses(slot) =>
           Denotes(fields[SlotMatrix(slot).ncols + 1], windows[slot].class_data[1][r])
    /\ ParseFloat(fields[FieldCount(slot)]).ok
    /\ ParseFloat(fields[FieldCount(slot)]).v
           = Scale * windows[slot].clustering_data_labels[r]

\* the first fields: the values of the row of the matrix
RowHasValues(slot, fields, r) ==
    /\ Len(fields) >= SlotMatrix(slot).ncols
    /\ \A c \in 1..SlotMatrix(slot).ncols : Denotes(fields[c], SlotMatrix(slot).cells[r][c])

\* the line is the one that names the algorithm
IsAlgorithmLine(line) == Len(line) > 0 /\ line[1] = "Data clustering algorithm: "

\* one data row per row of the matrix, then the line of the algorithm
SavedRowsCarryLabels(slot, lines) ==
    /\ Len(lines) > SlotMatrix(slot).nrows
    /\ IsAlgorithmLine(lines[SlotMatrix(slot).nrows + 1])
    /\ \A r \in 1..SlotMatrix(slot).nrows :
          /\ ~IsAlgorithmLine(lines[r])
          /\ \E fields \in {SplitCommas(lines[r])} :
                /\ RowHasValues(slot, fields, r)
                /\ RowHasLabels(slot, fields, r)

\* C24: a file saved as text has one data row per row of the matrix, before
\* the line of the algorithm; the i-th data row has the values of the i-th
\* row of the matrix, then the class of the i-th data point when the display
\* has classes, then the label of the i-th data point.
C24_SavedRowsCarryOwnLabels ==
    [][\A slot \in Slots : \A target \in SaveTargets :
          SavedAsText(slot, target) =>
              \A lines \in {files_saved'[target].lines} :
                  SavedRowsCarryLabels(slot, lines)]_vars


\* the algorithm of the slot's display took a number of clusters
TookCount(slot) ==
    windows[slot].data_clustering_algorithm \in
        {"K-Means", "Gaussian Mixture Models", "Agglomerative"}

IsCountLine(line) == Len(line) > 1 /\ line[1] = "Number of clusters: "

IsMetricLine(line) == Len(line) > 1 /\ line[1] = "Rand index: "

\* the lines after the data rows: the algorithm, the number of clusters when
\* the algorithm took one, the metric when the display has classes
SavedLinesAfter(slot, after) ==
    /\ Len(after) = 1 + (IF TookCount(slot) THEN 1 ELSE 0)
                      + (IF WithClasses(slot) THEN 1 ELSE 0)
    /\ after[1] = <<"Data clustering algorithm: ", windows[slot].data_clustering_algorithm>>
    /\ TookCount(slot) =>
           /\ IsCountLine(after[2])
           /\ IntTextOk(Tail(after[2]))
           /\ IntText(Tail(after[2])) = windows[slot].num_clusters[1]
    /\ WithClasses(slot) => IsMetricLine(after[Len(after)])

\* C25: in a file saved as text the data rows are followed by the line of
\* the algorithm, then by the line of the number of clusters if and only if
\* the algorithm took one, then by the line of the metric if and only if the
\* display has classes; no line is written for what is left out, and the
\* files of the two slots are laid out alike.
C25_LinesAfterTheData ==
    [][\A slot \in Slots : \A target \in SaveTargets :
          SavedAsText(slot, target) =>
              \A lines \in {files_saved'[target].lines} :
                  /\ Len(lines) > SlotMatrix(slot).nrows
                  /\ SavedLinesAfter(slot,
                         SubSeq(lines, SlotMatrix(slot).nrows + 1, Len(lines)))]_vars

\* a saved text with the line of the number of clusters and without the line
\* of the metric, and the display of slot 2 saved with its algorithm
C25_Witness ==
    \E target \in SaveTargets :
        /\ files_saved[target].kind = "text"
        /\ windows[2].data_clustering_algorithm # ""
        /\ \E lines \in {files_saved[target].lines} :
              /\ IsCountLine(lines[Len(lines)])
              /\ lines[Len(lines) - 1]
                     = <<"Data clustering algorithm: ", windows[2].data_clustering_algorithm>>


\* the text of a display: of its matrix and of what the slot keeps with it
\* (labels, algorithm, number of clusters, classes, metric), and of nothing
\* else
TextOfDisplay(matrix, kept) ==
    TextContent([i \in 1..matrix.nrows |-> RowSaved(kept, Savetxt(matrix), i)]
                \o LinesAfter(kept))

\* C26: a save as text succeeds and the text that it writes is the text of
\* the display that is saved: it is the same for the same display, whatever
\* the target held before the save and whichever slot the display is in.
C26_SavedTextIsOfDisplayAlone ==
    [][\A slot \in Slots : \A target \in SaveTargets :
          (target[2] \in {"txt", "csv"} /\ SaveTried(slot, target)) =>
              /\ failure' = "none"
              /\ files_saved'[target] = TextOfDisplay(SlotMatrix(slot), windows[slot])]_vars

\* the display has been saved as text twice, with the same content
C26_Witness ==
    /\ files_saved[<<"out", "txt">>].kind = "text"
    /\ files_saved[<<"out", "csv">>] = files_saved[<<"out", "txt">>]
    /\ \E slot \in Slots :
          /\ windows[slot].attribute_data # 0
          /\ files_saved[<<"out", "txt">>] = TextOfDisplay(SlotMatrix(slot), windows[slot])


(***************************************************************************)
(* What a display keeps of the clustering.                                 *)
(***************************************************************************)
\* the step is a click on the trigger of the slot that display_data_clustering
\* has answered without an exception
DisplayedIn(slot) ==
    /\ displays' = displays + 1
    /\ failure' = "none"
    /\ \E offset \in Offsets : DisplayClicked(slot, offset)

\* C27: a display keeps the classes of the data points and the metric of
\* the labels against them exactly when the class option is set at the
\* time of the clustering; with the option unset the slot has neither,
\* whatever it had before.
C27_MetricIffClassOption ==
    [][\A slot \in Slots :
          DisplayedIn(slot) =>
              \E kept \in {windows'[slot]} :
                  /\ kept.class_data # Nothing <=> data_with_classes
                  /\ kept.clustering_metric # Nothing <=> data_with_classes
                  /\ data_with_classes =>
                         /\ kept.class_data = Some(class_data)
                         /\ kept.clustering_metric
                                = Some(RandScore(class_data, kept.clustering_data_labels))]_vars

\* slot 1 has been saved with its metric, and a later clustering without
\* classes is now in slot 1
C27_Witness ==
    /\ \E target \in SaveTargets :
          /\ files_saved[target].kind = "text"
          /\ \E lines \in {files_saved[target].lines} : IsMetricLine(lines[Len(lines)])
    /\ windows[2] = NoSnapshot
    /\ display_window1
    /\ windows[1].data_clustering_algorithm # ""
    /\ windows[1].class_data = Nothing
    /\ windows[1].clustering_metric = Nothing


\* the two displays are of equal matrices, with the same algorithm and the
\* same number of clusters
SameClustering(kept, matrix, other, other_matrix) ==
    /\ other.attribute_data # 0
    /\ matrix = other_matrix
    /\ kept.data_clustering_algorithm = other.data_clustering_algorithm
    /\ kept.num_clusters = other.num_clusters

ReadyButForCount ==
    /\ data_imported
    /\ ~file_data_error
    /\ (~data_non_numbers \/ feature_values_non_numbers_entered
            \/ feature_values_non_numbers_entered_not_applicable)
    /\ dimension_selected

NoCountChosen == algorithm \in clustering_algorithms_no_num_clusters_input

\* the number that int() makes of the text of the input at a display
CountEntered == IF num_clusters_text = <<>> THEN 0 ELSE IntText(num_clusters_text)

\* what an algorithm that takes no number is constructed with
OwnClusters(matrix) ==
    IF algorithm = "Spectral" /\ matrix.nrows < SpectralDefaultClusters
    THEN Some(matrix.nrows) ELSE Nothing

\* C29: while an algorithm that takes no number of clusters is chosen, the
\* button Display 1 is enabled exactly under the conditions that do not ask
\* for the number; a display with such an algorithm constructs it without the
\* number of the input and keeps no number in the slot; a display with
\* K-Means, Gaussian Mixture Models or Agglomerative constructs the algorithm
\* with the number of the input and keeps it in the slot.
C29_CountOnlyWhereTaken ==
    [][/\ (failure' = "none" /\ NoCountChosen')
              => (window1_button' <=> ReadyButForCount')
       /\ \A slot \in Slots :
              DisplayedIn(slot) =>
                  \E kept \in {windows'[slot]} : \E call \in {backend'.fit} :
                      /\ call.algorithm = algorithm
                      /\ kept.data_clustering_algorithm = algorithm
                      /\ IF NoCountChosen
                         THEN /\ call.n_clusters = OwnClusters(heap[attribute_data])
                              /\ kept.num_clusters = Nothing
                         ELSE /\ call.n_clusters = Some(CountEntered)
                              /\ kept.num_clusters = Some(CountEntered)]_vars

\* with 2 left in the input, one slot shows a clustering of an algorithm
\* that takes no number and keeps none, and the other one of K-Means with 2
C29_Witness ==
    /\ failure = "none"
    /\ num_clusters_text = <<"2">>
    /\ NoCountChosen
    /\ window1_button
    /\ backend.fit.algorithm = algorithm
    /\ backend.fit.n_clusters # Some(2)
    /\ \E slot \in Slots :
           /\ windows[slot].data_clustering_algorithm = algorithm
           /\ windows[slot].num_clusters = Nothing
           /\ windows[3 - slot].data_clustering_algorithm = "K-Means"
           /\ windows[3 - slot].num_clusters = Some(2)


\* the text is one that the entry holds as its number
HeldNumber(text) == Truthy(text) /\ ParseFloat(text).ok

\* the number that the selected entry holds after the step
SelectedMappedAfter ==
    non_number_values'[features_index' + 1][values_index'[features_index' + 1] + 1].mapped

\* a step in which feature_values_non_numbers_changed runs with the text
\* held: the input is given the number that the entry it then shows holds,
\* by choosing the entry's value, by choosing the entry's feature, or by
\* an edit
AssignedAgain(held) ==
    /\ HeldNumber(held)
    /\ held # input_text
    /\ input_text' = held
    /\ \/ \E j \in 0..2 : FeatureValueChosen(j)
       \/ \E i \in 0..2 : FeatureChosen(i)
       \/ FeatureValueEdited(held)

\* C30: a step that assigns to the selected entry the numeric text that the
\* entry already holds returns, and leaves the entry's number, the cells of
\* attribute_data, feature_values_non_numbers_entered and the enabled states
\* of the two display buttons as they are.
C30_AssigningAgainChangesNothing ==
    [][\A fv \in EntryIndexes :
          \E held \in {non_number_values[fv[1]][fv[2]].mapped} :
              (/\ AssignedAgain(held)
               /\ features_index' = fv[1] - 1
               /\ values_index'[features_index' + 1] = fv[2] - 1)
                  => /\ failure' = "none"
                     /\ SelectedMappedAfter = held
                     /\ heap'[attribute_data'].cells = heap[attribute_data].cells
                     /\ feature_values_non_numbers_entered'
                            = feature_values_non_numbers_entered
                     /\ window1_button' = window1_button
                     /\ window2_button' = window2_button]_vars


\* C31: in every state that a sequence of the user's events reaches, no
\* handler has failed: the session goes on, so that a file can still be
\* loaded.
C31_NoHandlerFails == failure = "none"

\* C33: with a table loaded, a step in which the file dialog of load_data is
\* opened and cancelled leaves the session as it is: the loaded table, the catalog, the matrix,
\* the flags and the selections.
C33_CancelChangesNothing ==
    [][(data_imported /\ LoadDataCancelled) => Cur' = Cur]_vars


\* C32: a display with Spectral constructs it with the number of rows of
\* attribute_data, the matrix that is clustered, when that has fewer than 8
\* rows, and without a number when it has 8 or more; a display with another
\* algorithm constructs it with the number of the input when the algorithm
\* takes one, and without a number otherwise.
C32_SpectralTakesRowsUnderEight ==
    [][\A slot \in Slots :
          DisplayedIn(slot) =>
              \E call \in {backend'.fit} : \E rows \in {heap[attribute_data].nrows} :
                  /\ heap'[windows'[slot].attribute_data].nrows = rows
                  /\ Len(windows'[slot].clustering_data_labels) = rows
                  /\ call.n_clusters =
                         IF algorithm = "Spectral"
                         THEN IF rows < SpectralDefaultClusters
                              THEN Some(rows) ELSE Nothing
                         ELSE IF NoCountChosen THEN Nothing ELSE Some(CountEntered)]_vars

\* of the table of 8 rows, slot 1 shows the Spectral clustering of the 7
\* rows that the exclusion of rows leaves, and slot 2 that of all 8 rows,
\* the one constructed with 7 and the other without a number
C32_Witness ==
    /\ failure = "none"
    /\ filename = "eight"
    /\ \A slot \in Slots : windows[slot].data_clustering_algorithm = "Spectral"
    /\ heap[windows[1].attribute_data].nrows = 7
    /\ \E r \in 1..7 : windows[1].clustering_data_labels[r] = 6
    /\ heap[windows[2].attribute_data].nrows = 8
    /\ backend.fit.algorithm = "Spectral"
    /\ backend.fit.n_clusters = Nothing


\* the selections of the option, the algorithm, the number of clusters and
\* the dimension are cleared
SelectionsCleared ==
    /\ policy_index = 0
    /\ algorithm = ""
    /\ num_clusters_text = <<>>
    /\ checked_button = ""

\* the flags that the selections set are false
SelectionFlagsCleared ==
    /\ ~feature_values_non_numbers_entered
    /\ ~clustering_algorithm_selected
    /\ ~num_clusters_entered
    /\ ~num_clusters_not_applicable
    /\ ~dimension_selected

\* the class option, and what is shown in the display slots
Surviving ==
    <<data_with_classes_checked, data_with_classes, display_window1, display_window2,
      SlotView(1), SlotView(2), windows[1].plot, windows[2].plot>>

\* C34, as the claim states it: the step in which a file is chosen in the
\* dialog of load_data, whether the file is then loaded or rejected, returns
\* with the selections cleared, every flag of readiness false and both
\* display buttons disabled, and leaves the class option and the display
\* slots as they are.
C34_AsStated ==
    [][FileIsChosen =>
          /\ failure' = "none"
          /\ SelectionsCleared'
          /\ SelectionFlagsCleared'
          /\ ~feature_values_non_numbers_entered_not_applicable'
          /\ ~window1_button'
          /\ ~window2_button'
          /\ Surviving' = Surviving]_vars

\* C34: the step in which a file is chosen in the dialog of load_data,
\* whether the file is then loaded or rejected, returns with the selections
\* cleared, the flags of the selections false and both display buttons
\* disabled, and leaves the class option and the display slots as they are;
\* feature_values_non_numbers_entered_not_applicable is true afterwards
\* exactly when the file was loaded as a table without non-numeric values.
C34_LoadClearsSelections ==
    [][FileIsChosen =>
          /\ failure' = "none"
          /\ SelectionsCleared'
          /\ SelectionFlagsCleared'
          /\ feature_values_non_numbers_entered_not_applicable'
                 <=> (data_imported' /\ ~file_data_error' /\ ~data_non_numbers')
          /\ ~window1_button'
          /\ ~window2_button'
          /\ Surviving' = Surviving]_vars

\* a file was rejected after a clustering was displayed: no dimension is
\* checked and no algorithm chosen, which only a choice of a file leaves
\* behind an open display, and slot 1 still shows its clustering
C34_Witness ==
    /\ failure = "none"
    /\ filename = "ragged"
    /\ file_data_error
    /\ SelectionsCleared
    /\ SelectionFlagsCleared
    /\ ~window1_button
    /\ ~window2_button
    /\ display_window1
    /\ windows[1].data_clustering_algorithm = "K-Means"


SomeSlotOpen == display_window1 \/ display_window2

\* C35: after every step the Display 2 button is enabled only if a display
\* slot is open; a display in slot 1 that returns leaves slot 1 open and
\* the Display 2 button enabled; the close of the last open slot leaves the
\* Display 2 button disabled; and a display in slot 2 is made only while a
\* slot is open.
C35_SecondNeedsOpenSlot ==
    [][/\ window2_button' => SomeSlotOpen'
       /\ DisplayedIn(1) => (display_window1' /\ window2_button')
       /\ DisplayedIn(2) => (SomeSlotOpen /\ display_window2')
       /\ \A slot \in Slots :
              (CloseClicked(slot) /\ ~SomeSlotOpen') => ~window2_button']_vars

\* readiness holds and Display 1 is enabled, and Display 2 is disabled,
\* after the display that was shown in slot 1 has been closed
C35_Witness ==
    /\ failure = "none"
    /\ ReadyFlags(Cur)
    /\ window1_button
    /\ ~window2_button
    /\ ~SomeSlotOpen
    /\ windows[1].data_clustering_algorithm # ""


\* a display step with the class option set that comes to rand_score: the
\* projection and the fit have returned
MetricComputed(slot) ==
    /\ data_with_classes
    /\ \E offset \in Offsets : DisplayClicked(slot, offset)
    /\ failure' \in {"none", "ValueError: rand_score"}

\* C36: whenever a display computes the metric, it does so without a
\* failure, class_data has one class per row of attribute_data, the matrix
\* that is clustered, and the classes that the slot keeps for the export
\* are as many as the labels.
C36_ClassesMatchRows ==
    [][\A slot \in Slots :
          MetricComputed(slot) =>
              /\ failure' = "none"
              /\ Len(class_data) = Matrix.nrows
              /\ Len(windows'[slot].class_data[1])
                     = Len(windows'[slot].clustering_data_labels)]_vars


CountAlgorithms == Algorithms \ clustering_algorithms_no_num_clusters_input

\* a display step in which an algorithm that takes the number of clusters
\* is constructed and fitted: the projection has returned
CountAlgorithmRun(slot) ==
    /\ algorithm \in CountAlgorithms
    /\ \E offset \in Offsets : DisplayClicked(slot, offset)
    /\ backend'.fit.algorithm = algorithm

\* C37: whenever K-Means, Gaussian Mixture Models or Agglomerative is run,
\* the number of clusters it is constructed with is at most the number of
\* rows of attribute_data, the matrix that is clustered.
C37_CountWithinRows ==
    [][\A slot \in Slots :
          CountAlgorithmRun(slot) =>
              /\ backend'.fit.n_clusters # Nothing
              /\ backend'.fit.n_clusters[1] <= Matrix.nrows]_vars


\* the number of dimensions that display_data_clustering projects to
DimensionSelected == IF display_dimension = "2D" THEN 2 ELSE 3

\* C38: whenever display_data_clustering runs, the number of dimensions it
\* projects to is at most the number of columns and at most the number of
\* rows of attribute_data, the matrix that is projected.
C38_DimensionWithinMatrix ==
    [][\A slot \in Slots :
          (\E offset \in Offsets : DisplayClicked(slot, offset)) =>
              /\ attribute_data # 0
              /\ DimensionSelected <= Matrix.ncols
              /\ DimensionSelected <= Matrix.nrows]_vars

=============================================================================
